---- MODULE Spec2Model ----
(***************************************************************************)
(* Booking feasibility and capacity engine of reservation_system:          *)
(* ReservationForm.clean (admission control), create_reservation,          *)
(* staff_update_status, staff_update_tables and get_blocked_table_ids.     *)
(*                                                                         *)
(* Dates are day numbers (weekday = day % 7), times are minutes since      *)
(* midnight, and dt.combine(date, time) is date * 1440 + time.             *)
(* A missing value (Python None) of a date, time or number is NoneVal.     *)
(***************************************************************************)
EXTENDS Integers, Sequences, FiniteSets, TLC

VARIABLES
    reservations,   \* the Reservation table: a sequence, pk = index
    settings,       \* RestaurantSettings.objects.first(), or no row
    opening_hours,  \* OpeningHours rows by weekday 0..6
    special_days,   \* the SpecialOpeningDay rows (a set, date unique)
    today,          \* timezone.localdate()
    now,            \* timezone.localtime(), minutes since midnight
    inflight,       \* per web worker: a validated form not saved yet
    response        \* what the latest request was answered with

vars == <<reservations, settings, opening_hours, special_days, today, now,
          inflight, response>>

NoneVal == 0 - 1
MinutesPerDay == 24 * 60

(***************************************************************************)
(* Constants of forms.py and views.py.                                     *)
(***************************************************************************)
DEFAULT_INDOOR_CAPACITY == 42
DEFAULT_OUTDOOR_CAPACITY == 54
MAX_PARTY_SIZE == 12
OUTDOOR_MAX_PARTY_SIZE == 8
DWELL_MINUTES == 90
LARGE_PARTY_THRESHOLD == 7
MAX_LARGE_GROUPS_SIMULTANEOUS == 2
VERY_LARGE_PARTY_THRESHOLD == 9
MEDIUM_PARTY_MIN == 5
MEDIUM_PARTY_MAX == 6
MIN_LEAD_MINUTES == 15
SLOT_MINUTES == 15

PREF_NO_PREF == "NO_PREF"
PREF_INDOOR == "INDOOR"
PREF_OUTDOOR == "OUTDOOR_IF_POSSIBLE"
SeatingPreferences == {PREF_NO_PREF, PREF_INDOOR, PREF_OUTDOOR}

INDOOR_PREFERENCES == {PREF_INDOOR, PREF_NO_PREF}
OUTDOOR_PREFERENCES == {PREF_OUTDOOR}

Statuses ==
    {"PENDING", "CONFIRMED", "SEATED", "COMPLETED", "NO_SHOW", "CANCELLED"}

(***************************************************************************)
(* TIME_CHOICES: the 'HH:MM' values of the time select, OPEN_TIME 12:00 to *)
(* LAST_RES_TIME 16:30 in steps of 15 minutes.                             *)
(***************************************************************************)
OPEN_TIME == 12 * 60
LAST_RES_TIME == 16 * 60 + 30
TIME_CHOICES ==
    {t \in OPEN_TIME..LAST_RES_TIME : (t - OPEN_TIME) % 15 = 0}

(***************************************************************************)
(* The Table rows: ids 1 and 2 are active, 3 is inactive.                  *)
(***************************************************************************)
TableIds == {1, 2, 3}
ActiveTableIds == {1, 2}

dt_combine(date, time) == date * MinutesPerDay + time

(***************************************************************************)
(* RestaurantSettings: the row, with the defaults of its fields.           *)
(***************************************************************************)
SettingsDefaults ==
    [exists |-> TRUE,
     indoor_capacity |-> 42, outdoor_capacity |-> 54,
     dwell_minutes |-> 90,
     max_party_size_indoor |-> 12, max_party_size_outdoor |-> 8,
     medium_group_min_size |-> 5, medium_group_max_size |-> 6,
     large_group_min_size |-> 7, very_large_group_min_size |-> 9,
     max_large_groups_indoor |-> 2, max_very_large_groups_indoor |-> 1,
     max_large_groups_outdoor |-> 2,
     reservations_open |-> TRUE]

NoSettings == [SettingsDefaults EXCEPT !.exists = FALSE]

get_capacity_limits(S) ==
    IF S.exists
    THEN [indoor |-> S.indoor_capacity, outdoor |-> S.outdoor_capacity]
    ELSE [indoor |-> DEFAULT_INDOOR_CAPACITY,
          outdoor |-> DEFAULT_OUTDOOR_CAPACITY]

get_group_rules(S) ==
    IF S.exists
    THEN [medium_min |-> S.medium_group_min_size,
          medium_max |-> S.medium_group_max_size,
          large_min |-> S.large_group_min_size,
          very_large_min |-> S.very_large_group_min_size,
          max_large_indoor |-> S.max_large_groups_indoor,
          max_very_large_indoor |-> S.max_very_large_groups_indoor,
          max_large_outdoor |-> S.max_large_groups_outdoor]
    ELSE [medium_min |-> MEDIUM_PARTY_MIN,
          medium_max |-> MEDIUM_PARTY_MAX,
          large_min |-> LARGE_PARTY_THRESHOLD,
          very_large_min |-> VERY_LARGE_PARTY_THRESHOLD,
          max_large_indoor |-> MAX_LARGE_GROUPS_SIMULTANEOUS,
          max_very_large_indoor |-> 1,
          max_large_outdoor |-> 2]

(***************************************************************************)
(* get_dwell_minutes is imported by views.py from forms.py, which does not *)
(* define it: the configured dwell_minutes, 90 when there is no row.       *)
(***************************************************************************)
get_dwell_minutes(S) ==
    IF S.exists THEN S.dwell_minutes ELSE 90

(***************************************************************************)
(* OpeningHours.effective_last_res_time: last_res_time or close_time.      *)
(***************************************************************************)
effective_last_res_time(oh) ==
    IF oh.last_res_time # NoneVal THEN oh.last_res_time ELSE oh.close_time

(***************************************************************************)
(* The interval tests, one per place of the code that writes one.          *)
(***************************************************************************)
\* the test with closed ends: windows that only touch would overlap
ClosedOverlap(existing_start, existing_end, requested_start, requested_end) ==
    existing_start <= requested_end /\ requested_start <= existing_end

\* forms.py, the loop over existing_reservations
CleanOverlap(existing_start, existing_end, requested_start, requested_end) ==
    existing_start < requested_end /\ requested_start < existing_end

\* forms.py, the loop over outdoor_existing
OutdoorOverlap(o_start, o_end, requested_start, requested_end) ==
    o_start < requested_end /\ requested_start < o_end

\* views.py, build_capacity_timeblocks
SlotOverlap(res_start, res_end, slot_start, slot_end) ==
    res_start < slot_end /\ slot_start < res_end

\* views.py, get_blocked_table_ids
BlockedOverlap(other_start, other_end, start, end) ==
    other_start < end /\ start < other_end

(***************************************************************************)
(* The if / elif chain that classifies an existing reservation by size.    *)
(***************************************************************************)
ExistingTier(size, rules) ==
    IF size >= rules.very_large_min THEN "very_large"
    ELSE IF size >= rules.large_min THEN "large"
    ELSE IF rules.medium_min <= size /\ size <= rules.medium_max
         THEN "medium"
    ELSE "none"

(***************************************************************************)
(* Field cleaning of the ModelForm, before clean(): a required field that  *)
(* is missing or invalid is reported and left out of cleaned_data.         *)
(***************************************************************************)
FieldErrors(c) ==
       (IF c.email THEN <<>> ELSE << <<"email", "required">> >>)
    \o (IF c.phone THEN <<>> ELSE << <<"phone", "required">> >>)
    \o (IF c.date # NoneVal THEN <<>> ELSE << <<"date", "required">> >>)
    \o (IF c.time = NoneVal THEN << <<"time", "required">> >>
        ELSE IF c.time \notin TIME_CHOICES
        THEN << <<"time", "invalid_choice">> >>
        ELSE <<>>)
    \o (IF c.party_size # NoneVal THEN <<>>
        ELSE << <<"party_size", "required">> >>)

\* the time ChoiceField and clean_time: a posted time that is not one of
\* TIME_CHOICES does not reach cleaned_data
clean_time(value) == IF value \in TIME_CHOICES THEN value ELSE NoneVal

\* cleaned_data as clean() reads it
CleanedData(c) == [c EXCEPT !.time = clean_time(c.time)]

\* party size limits
PartySizeErrors(c) ==
    IF c.party_size # NoneVal /\ c.party_size # 0
    THEN   (IF c.party_size > MAX_PARTY_SIZE
            THEN << <<"party_size", "max_party_size">> >> ELSE <<>>)
        \o (IF c.seating_preference \in OUTDOOR_PREFERENCES
               /\ c.party_size > OUTDOOR_MAX_PARTY_SIZE
            THEN << <<"party_size", "outdoor_max_party_size">> >>
            ELSE <<>>)
    ELSE <<>>

\* email and phone must be present
ContactErrors(c) ==
       (IF c.email THEN <<>> ELSE << <<"email", "email_required">> >>)
    \o (IF c.phone THEN <<>> ELSE << <<"phone", "phone_required">> >>)

\* no past dates
PastDateErrors(c, td) ==
    IF c.date # NoneVal /\ c.date < td
    THEN << <<"date", "past_date">> >> ELSE <<>>

HasSpecial(sd, date) == \E s \in sd : s.date = date
SpecialFor(sd, date) == CHOOSE s \in sd : s.date = date

\* special opening day whose booking window is not open yet: clean() returns
BookingWindowClosed(c, sd, td) ==
    /\ c.date # NoneVal
    /\ HasSpecial(sd, c.date)
    /\ td < SpecialFor(sd, c.date).bookings_open_from

weekday(date) == date % 7

\* opening hours of the weekday: closed day
ClosedDayErrors(c, oh) ==
    IF c.date # NoneVal
       /\ (~oh[weekday(c.date)].exists \/ ~oh[weekday(c.date)].is_open)
    THEN << <<"date", "closed">> >> ELSE <<>>

\* time within the allowed range of the weekday; formatting the message
\* calls strftime on open_time and last_res, which raises when one is None
TimeRangeErrors(c, oh) ==
    IF c.date # NoneVal /\ c.time # NoneVal
       /\ oh[weekday(c.date)].exists /\ oh[weekday(c.date)].is_open
    THEN LET opening == oh[weekday(c.date)]
             last_res == effective_last_res_time(opening)
         IN IF \/ (opening.open_time # NoneVal /\ c.time < opening.open_time)
               \/ (last_res # NoneVal /\ c.time > last_res)
            THEN IF opening.open_time = NoneVal \/ last_res = NoneVal
                 THEN << <<"time", "AttributeError">> >>
                 ELSE << <<"time", "time_range">> >>
            ELSE <<>>
    ELSE <<>>

\* same-day minimum lead time; .time() of now + 15 minutes drops the date
LeadTimeErrors(c, td, nw) ==
    IF c.date # NoneVal /\ c.time # NoneVal /\ c.date = td
       /\ c.time <= (nw + MIN_LEAD_MINUTES) % MinutesPerDay
    THEN << <<"time", "lead_time">> >> ELSE <<>>

(***************************************************************************)
(* The capacity check of clean(): zone, overlapping existing reservations  *)
(* and their counters.                                                     *)
(***************************************************************************)
Zone(seating_pref) ==
    IF seating_pref \in OUTDOOR_PREFERENCES THEN "outdoor" ELSE "indoor"

\* only the reservations of the candidate's own preference
ZonePrefsSamePreference(seating_pref) == {seating_pref}

ZonePrefs(seating_pref) ==
    IF seating_pref \in OUTDOOR_PREFERENCES
    THEN OUTDOOR_PREFERENCES ELSE INDOOR_PREFERENCES

MaxCapacity(seating_pref, S) ==
    IF seating_pref \in OUTDOOR_PREFERENCES
    THEN get_capacity_limits(S).outdoor
    ELSE get_capacity_limits(S).indoor

\* Reservation.objects.filter(date=date, seating_preference__in=prefs)
\*     .exclude(status=CANCELLED)
InExisting(r, date, prefs) ==
    /\ r.date = date
    /\ r.seating_preference \in prefs
    /\ r.status # "CANCELLED"

ZeroCounters == [guests |-> 0, very_large |-> 0, large |-> 0, medium |-> 0]

\* one pass of the loop body: the counters after reservation r
CountExisting(c, r, rules, n) ==
    LET existing_start == dt_combine(c.date, r.time)
        existing_end == existing_start + DWELL_MINUTES
        requested_start == dt_combine(c.date, c.time)
        requested_end == requested_start + DWELL_MINUTES
    IN IF /\ InExisting(r, c.date, ZonePrefs(c.seating_preference))
          /\ CleanOverlap(existing_start, existing_end,
                          requested_start, requested_end)
       THEN [guests |-> n.guests + r.party_size,
             very_large |-> n.very_large
                 + (IF ExistingTier(r.party_size, rules) = "very_large"
                    THEN 1 ELSE 0),
             large |-> n.large
                 + (IF ExistingTier(r.party_size, rules)
                          \in {"very_large", "large"}
                    THEN 1 ELSE 0),
             medium |-> n.medium
                 + (IF ExistingTier(r.party_size, rules) = "medium"
                    THEN 1 ELSE 0)]
       ELSE n

\* for r in existing_reservations, from reservation i on
RECURSIVE ExistingLoop(_, _, _, _, _)
ExistingLoop(c, rs, rules, i, n) ==
    IF i > Len(rs) THEN n
    ELSE ExistingLoop(c, rs, rules, i + 1,
                      CountExisting(c, rs[i], rules, n))

\* concurrent_guests and the three group counters
ConcurrentCounters(c, rs, S) ==
    ExistingLoop(c, rs, get_group_rules(S), 1, ZeroCounters)

\* for r in outdoor_existing, from reservation i on
RECURSIVE OutdoorLoop(_, _, _, _)
OutdoorLoop(c, rs, i, total) ==
    IF i > Len(rs) THEN total
    ELSE LET r == rs[i]
             o_start == dt_combine(c.date, r.time)
             o_end == o_start + DWELL_MINUTES
             requested_start == dt_combine(c.date, c.time)
             requested_end == requested_start + DWELL_MINUTES
         IN OutdoorLoop(c, rs, i + 1,
                IF /\ InExisting(r, c.date, OUTDOOR_PREFERENCES)
                   /\ OutdoorOverlap(o_start, o_end,
                                     requested_start, requested_end)
                THEN total + r.party_size ELSE total)

\* outdoor_overlap_total of the no-preference fallback
OutdoorOverlapTotal(c, rs) == OutdoorLoop(c, rs, 1, 0)

\* 0) overall seat capacity of the zone
CapacityExceeded(c, concurrent_guests, S) ==
    concurrent_guests + c.party_size > MaxCapacity(c.seating_preference, S)

\* the error of a failed capacity check: suggest outdoor to a no-preference
\* booking when outdoor has room, fully booked otherwise
CapacityErrors(c, rs, S) ==
    IF /\ Zone(c.seating_preference) = "indoor"
       /\ c.seating_preference = PREF_NO_PREF
       /\ OutdoorOverlapTotal(c, rs) + c.party_size
              <= get_capacity_limits(S).outdoor
    THEN << <<"seating_preference", "suggest_outdoor">> >>
    ELSE << <<"time", "fully_booked">> >>

\* 1) only one very-large group at a time
VeryLargeErrors(c, n) ==
    IF c.party_size >= VERY_LARGE_PARTY_THRESHOLD /\ n.very_large >= 1
    THEN << <<"time", "one_very_large">> >> ELSE <<>>

\* 2) at most two large groups in total
LargeErrors(c, n) ==
    IF c.party_size >= LARGE_PARTY_THRESHOLD
       /\ n.large + 1 > MAX_LARGE_GROUPS_SIMULTANEOUS
    THEN << <<"time", "large_limit">> >> ELSE <<>>

\* the medium rule applied to medium candidates only
MediumErrorsForMedium(c, n) ==
    IF /\ MEDIUM_PARTY_MIN <= c.party_size
       /\ c.party_size <= MEDIUM_PARTY_MAX
       /\ n.large >= 2 /\ n.medium + 1 > 1
    THEN << <<"time", "medium_limit">> >> ELSE <<>>

\* 3) with two large groups, only one medium group
MediumErrors(c, n) ==
    LET new_is_large == c.party_size >= LARGE_PARTY_THRESHOLD
        new_is_medium == MEDIUM_PARTY_MIN <= c.party_size
                         /\ c.party_size <= MEDIUM_PARTY_MAX
        effective_large_count == n.large + (IF new_is_large THEN 1 ELSE 0)
        effective_medium_count == n.medium + (IF new_is_medium THEN 1 ELSE 0)
    IN IF effective_large_count >= 2 /\ effective_medium_count > 1
       THEN << <<"time", "medium_limit">> >> ELSE <<>>

\* at most two large outdoor groups at once
OutdoorLargeErrors(c, n) ==
    IF c.party_size >= LARGE_PARTY_THRESHOLD /\ n.large + 1 > 2
    THEN << <<"time", "outdoor_large_limit">> >> ELSE <<>>

\* the group rules of the zone
TierErrors(c, n) ==
    IF Zone(c.seating_preference) = "indoor"
    THEN VeryLargeErrors(c, n) \o LargeErrors(c, n) \o MediumErrors(c, n)
    ELSE OutdoorLargeErrors(c, n)

\* the capacity failure does not return: the group rules still run
CapacityThenTiersNoReturn(c, rs, S, n) ==
    IF CapacityExceeded(c, n.guests, S)
    THEN CapacityErrors(c, rs, S) \o TierErrors(c, n)
    ELSE TierErrors(c, n)

\* a capacity failure returns before the group rules
CapacityThenTiers(c, rs, S, n) ==
    IF CapacityExceeded(c, n.guests, S)
    THEN CapacityErrors(c, rs, S)
    ELSE TierErrors(c, n)

\* capacity check with dwell time and group limits
CapacityAndTierErrors(c, rs, S) ==
    IF c.date # NoneVal /\ c.time # NoneVal
       /\ c.party_size # NoneVal /\ c.party_size # 0
    THEN CapacityThenTiers(c, rs, S, ConcurrentCounters(c, rs, S))
    ELSE <<>>

(***************************************************************************)
(* ReservationForm.clean: the errors it adds, in order.                    *)
(***************************************************************************)
\* the closed booking window does not return: the later checks still run
CleanWithoutReturn(c, rs, S, oh, sd, td, nw) ==
       PartySizeErrors(c) \o ContactErrors(c) \o PastDateErrors(c, td)
    \o (IF BookingWindowClosed(c, sd, td)
        THEN << <<"date", "not_open_yet">> >> ELSE <<>>)
    \o ClosedDayErrors(c, oh)
    \o TimeRangeErrors(c, oh)
    \o LeadTimeErrors(c, td, nw)
    \o CapacityAndTierErrors(c, rs, S)

\* a booking window that is not open yet returns before the later checks
Clean(c, rs, S, oh, sd, td, nw) ==
    LET early == PartySizeErrors(c) \o ContactErrors(c)
                 \o PastDateErrors(c, td)
    IN IF BookingWindowClosed(c, sd, td)
       THEN early \o << <<"date", "not_open_yet">> >>
       ELSE early
            \o ClosedDayErrors(c, oh)
            \o TimeRangeErrors(c, oh)
            \o LeadTimeErrors(c, td, nw)
            \o CapacityAndTierErrors(c, rs, S)

\* form.errors after full_clean: field cleaning, then clean()
FormErrors(c, rs, S, oh, sd, td, nw) ==
    FieldErrors(c) \o Clean(CleanedData(c), rs, S, oh, sd, td, nw)

\* clean() raised instead of returning: the request ends in a server error
Raised(errors) ==
    \E i \in DOMAIN errors : errors[i] = <<"time", "AttributeError">>

(***************************************************************************)
(* views.get_blocked_table_ids: the tables held by the other reservations  *)
(* of the same date, neither cancelled nor no-show, whose window overlaps. *)
(***************************************************************************)
\* the reservation itself is not excluded from the other reservations
get_blocked_with_self(pk, rs, dwell_minutes) ==
    UNION {rs[o].tables : o \in
        {o \in DOMAIN rs :
            /\ rs[o].date = rs[pk].date
            /\ rs[o].status \notin {"CANCELLED", "NO_SHOW"}
            /\ BlockedOverlap(
                   dt_combine(rs[o].date, rs[o].time),
                   dt_combine(rs[o].date, rs[o].time) + dwell_minutes,
                   dt_combine(rs[pk].date, rs[pk].time),
                   dt_combine(rs[pk].date, rs[pk].time) + dwell_minutes)}}

\* the other reservations exclude the reservation itself
get_blocked_table_ids(pk, rs, dwell_minutes) ==
    LET reservation == rs[pk]
        start == dt_combine(reservation.date, reservation.time)
        end == start + dwell_minutes
        other_reservations ==
            {o \in DOMAIN rs :
                /\ rs[o].date = reservation.date
                /\ o # pk
                /\ rs[o].status \notin {"CANCELLED", "NO_SHOW"}}
    IN IF reservation.date = NoneVal \/ reservation.time = NoneVal
       THEN {}
       ELSE UNION {rs[o].tables : o \in
                {o \in other_reservations :
                    BlockedOverlap(
                        dt_combine(rs[o].date, rs[o].time),
                        dt_combine(rs[o].date, rs[o].time) + dwell_minutes,
                        start, end)}}

(***************************************************************************)
(* create_reservation (POST), handled as one step.                         *)
(***************************************************************************)
ReservationsOpen(S) == IF S.exists THEN S.reservations_open ELSE TRUE

HasBookableSpecialDays(sd, td) ==
    \E s \in sd : s.date >= td /\ s.bookings_open_from <= td /\ s.is_open

FormEnabled(S, sd, td) ==
    ReservationsOpen(S) \/ HasBookableSpecialDays(sd, td)

\* the row is saved as the model's default status would leave it
NewReservationPending(c) ==
    [date |-> c.date, time |-> c.time, party_size |-> c.party_size,
     seating_preference |-> c.seating_preference,
     status |-> "PENDING", source |-> "ONLINE", tables |-> {}]

\* form.save(commit=False), status CONFIRMED, source ONLINE
NewReservation(c) ==
    [date |-> c.date, time |-> c.time, party_size |-> c.party_size,
     seating_preference |-> c.seating_preference,
     status |-> "CONFIRMED", source |-> "ONLINE", tables |-> {}]

Idle == [busy |-> FALSE]

CreateReservation(c) ==
    \E errors \in {FormErrors(c, reservations, settings, opening_hours,
                               special_days, today, now)} :
       /\ IF Raised(errors)
          THEN /\ response' = [op |-> "error", cand |-> c,
                               seen |-> reservations,
                               exception |-> "AttributeError"]
               /\ UNCHANGED reservations
          ELSE IF ~FormEnabled(settings, special_days, today)
          THEN /\ response' = [op |-> "create", cand |-> c,
                               seen |-> reservations, saved |-> FALSE,
                               errors |-> errors
                                   \o << <<"__all__", "closure_message">> >>]
               /\ UNCHANGED reservations
          ELSE IF errors = <<>>
          THEN /\ reservations' = Append(reservations, NewReservation(c))
               /\ response' = [op |-> "create", cand |-> c,
                               seen |-> reservations, saved |-> TRUE,
                               errors |-> errors]
          ELSE /\ response' = [op |-> "create", cand |-> c,
                               seen |-> reservations, saved |-> FALSE,
                               errors |-> errors]
               /\ UNCHANGED reservations
       /\ UNCHANGED <<settings, opening_hours, special_days, today, now,
                      inflight>>

(***************************************************************************)
(* staff_update_status                                                     *)
(***************************************************************************)
\* every status of the model is accepted
every_status == Statuses

allowed_statuses ==
    {"CONFIRMED", "SEATED", "COMPLETED", "NO_SHOW", "CANCELLED"}

StaffUpdateStatus(pk, new_status) ==
    /\ IF pk \notin DOMAIN reservations
       THEN /\ response' = [op |-> "status", pk |-> pk, result |-> "404"]
            /\ UNCHANGED reservations
       ELSE IF new_status \notin allowed_statuses
       THEN /\ response' = [op |-> "status", pk |-> pk,
                            result |-> "invalid_status"]
            /\ UNCHANGED reservations
       ELSE /\ reservations' =
                   [reservations EXCEPT ![pk].status = new_status]
            /\ response' = [op |-> "status", pk |-> pk, result |-> "updated"]
    /\ UNCHANGED <<settings, opening_hours, special_days, today, now,
                   inflight>>

(***************************************************************************)
(* staff_update_tables; the posted table is empty, not a number, or a      *)
(* number.                                                                 *)
(***************************************************************************)
\* the chosen table is added to the tables of the reservation
StaffUpdateTablesAdding(pk, table) ==
    /\ IF pk \notin DOMAIN reservations
       THEN /\ response' = [op |-> "tables", pk |-> pk, result |-> "404"]
            /\ UNCHANGED reservations
       ELSE LET dwell_minutes == get_dwell_minutes(settings)
                blocked_ids ==
                    get_blocked_table_ids(pk, reservations, dwell_minutes)
            IN IF table.kind = "empty"
               THEN /\ reservations' =
                           [reservations EXCEPT ![pk].tables = {}]
                    /\ response' = [op |-> "tables", pk |-> pk,
                                    result |-> "cleared"]
               ELSE IF table.kind # "int"
               THEN /\ response' = [op |-> "tables", pk |-> pk,
                                    result |-> "invalid_table"]
                    /\ UNCHANGED reservations
               ELSE IF table.id \notin ActiveTableIds
               THEN /\ response' = [op |-> "tables", pk |-> pk,
                                    result |-> "404"]
                    /\ UNCHANGED reservations
               ELSE IF table.id \in blocked_ids
               THEN /\ response' = [op |-> "tables", pk |-> pk,
                                    result |-> "in_use"]
                    /\ UNCHANGED reservations
               ELSE /\ reservations' =
                           [reservations EXCEPT
                               ![pk].tables = @ \cup {table.id}]
                    /\ response' = [op |-> "tables", pk |-> pk,
                                    result |-> "assigned"]
    /\ UNCHANGED <<settings, opening_hours, special_days, today, now,
                   inflight>>

\* the chosen table replaces the tables of the reservation
StaffUpdateTables(pk, table) ==
    /\ IF pk \notin DOMAIN reservations
       THEN /\ response' = [op |-> "tables", pk |-> pk, result |-> "404"]
            /\ UNCHANGED reservations
       ELSE LET dwell_minutes == get_dwell_minutes(settings)
                blocked_ids ==
                    get_blocked_table_ids(pk, reservations, dwell_minutes)
            IN IF table.kind = "empty"
               THEN /\ reservations' =
                           [reservations EXCEPT ![pk].tables = {}]
                    /\ response' = [op |-> "tables", pk |-> pk,
                                    result |-> "cleared"]
               ELSE IF table.kind # "int"
               THEN /\ response' = [op |-> "tables", pk |-> pk,
                                    result |-> "invalid_table"]
                    /\ UNCHANGED reservations
               ELSE IF table.id \notin ActiveTableIds
               THEN /\ response' = [op |-> "tables", pk |-> pk,
                                    result |-> "404"]
                    /\ UNCHANGED reservations
               ELSE IF table.id \in blocked_ids
               THEN /\ response' = [op |-> "tables", pk |-> pk,
                                    result |-> "in_use"]
                    /\ UNCHANGED reservations
               ELSE /\ reservations' =
                           [reservations EXCEPT ![pk].tables = {table.id}]
                    /\ response' = [op |-> "tables", pk |-> pk,
                                    result |-> "assigned"]
    /\ UNCHANGED <<settings, opening_hours, special_days, today, now,
                   inflight>>

(***************************************************************************)
(* The inputs of the checked runs.                                         *)
(***************************************************************************)
MaxReservations == 2

\* every weekday open 12:00 to 17:00, last reservation 16:30
EveryDayOpen ==
    [d \in 0..6 |-> [exists |-> TRUE, is_open |-> TRUE,
                     open_time |-> OPEN_TIME, close_time |-> 17 * 60,
                     last_res_time |-> LAST_RES_TIME]]

\* small capacities, everything else as the field defaults
CfgSmall ==
    [SettingsDefaults EXCEPT !.indoor_capacity = 10, !.outdoor_capacity = 11]

\* small capacities and a two-hour dwell
CfgDwell == [CfgSmall EXCEPT !.dwell_minutes = 120]

\* other tier boundaries and concurrency caps
CfgTiers ==
    [SettingsDefaults EXCEPT
        !.very_large_group_min_size = 8,
        !.max_large_groups_indoor = 3,
        !.max_large_groups_outdoor = 1]

Configs == {NoSettings, CfgSmall, CfgDwell, CfgTiers}

\* 12:00, 13:00, 13:30: with a dwell of 90 minutes the first two overlap,
\* the first and the last touch
BookingTimes == {12 * 60, 13 * 60, 13 * 60 + 30}
BookingSizes == {2, 8, 9}
BookingDates == {1}

Candidates ==
    [date : BookingDates, time : BookingTimes, party_size : BookingSizes,
     seating_preference : SeatingPreferences, email : {TRUE},
     phone : {TRUE}]

InitCalendar ==
    /\ opening_hours = EveryDayOpen
    /\ special_days = {}
    /\ today = 0
    /\ now = 10 * 60
    /\ inflight = [w \in {1, 2} |-> Idle]
    /\ response = [op |-> "none"]

InitBooking ==
    /\ reservations = <<>>
    /\ settings \in Configs
    /\ InitCalendar

\* a booking that would grow the table beyond MaxReservations is left out
NextCreate ==
    \E c \in Candidates :
        /\ CreateReservation(c)
        /\ Len(reservations') <= MaxReservations

\* bookings made one at a time, nothing else
SpecCreate == InitBooking /\ [][NextCreate]_vars

(***************************************************************************)
(* One booking request evaluated against any stored day.  The Reservation  *)
(* table is any sequence of up to MaxReservations rows: the admin site     *)
(* (admin.py, ReservationAdmin) stores a row without the online checks, so *)
(* the table is not limited to what create_reservation accepted.           *)
(***************************************************************************)
\* a row that staff cancelled (staff_update_status)
Cancelled(r) == [r EXCEPT !.status = "CANCELLED"]

\* the confirmed rows, and the bookings of nine at 12:00 cancelled as well
ExistingRows ==
    {NewReservation(c) : c \in Candidates}
    \cup {Cancelled(NewReservation(c)) :
              c \in {d \in Candidates :
                         d.party_size = 9 /\ d.time = 12 * 60}}

InitEvaluate ==
    /\ \E n \in 0..MaxReservations : reservations \in [1..n -> ExistingRows]
    /\ settings \in Configs
    /\ InitCalendar

NextEvaluate ==
    \E c \in Candidates :
        /\ response.op = "none"
        /\ CreateReservation(c)

SpecEvaluate == InitEvaluate /\ [][NextEvaluate]_vars

(***************************************************************************)
(* The four interval tests applied to one pair of windows: a reservation   *)
(* starting at a and another starting at b, both staying dwell minutes, and *)
(* for the timeline a slot of SLOT_MINUTES starting at b.                  *)
(***************************************************************************)
OverlapStarts == {12 * 60 + 15 * k : k \in 0..6}
OverlapDwells == {15, 30, 45, 90}

EvalOverlap(a, b, dwell) ==
    /\ response' =
           [op |-> "overlap", a |-> a, b |-> b, dwell |-> dwell,
            clean |-> CleanOverlap(a, a + dwell, b, b + dwell),
            outdoor |-> OutdoorOverlap(a, a + dwell, b, b + dwell),
            blocked |-> BlockedOverlap(a, a + dwell, b, b + dwell),
            slot |-> SlotOverlap(a, a + dwell, b, b + SLOT_MINUTES)]
    /\ UNCHANGED <<reservations, settings, opening_hours, special_days,
                   today, now, inflight>>

InitOverlap ==
    /\ reservations = <<>>
    /\ settings = NoSettings
    /\ InitCalendar

NextOverlap ==
    \E a \in OverlapStarts : \E b \in OverlapStarts :
        \E dwell \in OverlapDwells : EvalOverlap(a, b, dwell)

SpecOverlap == InitOverlap /\ [][NextOverlap]_vars

(***************************************************************************)
(* create_reservation handled by two web workers: form.is_valid() reads    *)
(* the table, reservation.save() writes it, and nothing joins the two (no  *)
(* transaction, no lock), so another request may run in between.           *)
(***************************************************************************)
ValidateForm(w, c) ==
    \E errors \in {FormErrors(c, reservations, settings, opening_hours,
                               special_days, today, now)} :
       /\ ~inflight[w].busy
       /\ IF Raised(errors)
          THEN /\ response' = [op |-> "error", cand |-> c,
                               seen |-> reservations,
                               exception |-> "AttributeError"]
               /\ UNCHANGED inflight
          ELSE IF ~FormEnabled(settings, special_days, today)
          THEN /\ response' = [op |-> "create", cand |-> c,
                               seen |-> reservations, saved |-> FALSE,
                               errors |-> errors
                                   \o << <<"__all__", "closure_message">> >>]
               /\ UNCHANGED inflight
          ELSE IF errors = <<>>
          THEN /\ inflight' = [inflight EXCEPT
                                  ![w] = [busy |-> TRUE, cand |-> c,
                                          seen |-> reservations]]
               /\ UNCHANGED response
          ELSE /\ response' = [op |-> "create", cand |-> c,
                               seen |-> reservations, saved |-> FALSE,
                               errors |-> errors]
               /\ UNCHANGED inflight
       /\ UNCHANGED <<reservations, settings, opening_hours, special_days,
                      today, now>>

SaveForm(w) ==
    /\ inflight[w].busy
    /\ reservations' = Append(reservations, NewReservation(inflight[w].cand))
    /\ response' = [op |-> "create", cand |-> inflight[w].cand,
                    seen |-> inflight[w].seen, saved |-> TRUE,
                    errors |-> <<>>]
    /\ inflight' = [inflight EXCEPT ![w] = Idle]
    /\ UNCHANGED <<settings, opening_hours, special_days, today, now>>

Workers == {1, 2}

ConcurrentCandidates ==
    [date : BookingDates, time : {12 * 60, 13 * 60},
     party_size : {2, 9}, seating_preference : {PREF_INDOOR, PREF_OUTDOOR},
     email : {TRUE}, phone : {TRUE}]

InitConcurrent ==
    /\ reservations = <<>>
    /\ settings = CfgSmall
    /\ InitCalendar

NextValidate ==
    \E w \in Workers : \E c \in ConcurrentCandidates :
        /\ Len(reservations)
               + Cardinality({v \in Workers : inflight[v].busy})
             < MaxReservations
        /\ ValidateForm(w, c)

NextSave == \E w \in Workers : SaveForm(w)

\* bookings handled by two workers whose steps interleave
SpecConcurrent == InitConcurrent /\ [][NextValidate \/ NextSave]_vars

(***************************************************************************)
(* Staff work on the bookings of one day: status and table changes.        *)
(***************************************************************************)
MaxDayReservations == 2

StaffTimes == {12 * 60, 13 * 60 + 30}

\* online bookings of two guests, as create_reservation stores them
DayBooking(t) ==
    NewReservation([date |-> 1, time |-> t, party_size |-> 2,
                    seating_preference |-> PREF_NO_PREF])

InitStaff ==
    /\ \E n \in 1..MaxDayReservations :
           reservations \in [1..n -> {DayBooking(t) : t \in StaffTimes}]
    /\ settings \in {NoSettings, CfgDwell}
    /\ InitCalendar

PostedStatuses == {"CONFIRMED", "NO_SHOW", "CANCELLED", "PENDING"}

PostedTables ==
    {[kind |-> "empty", id |-> 0], [kind |-> "text", id |-> 0],
     [kind |-> "int", id |-> 1], [kind |-> "int", id |-> 2],
     [kind |-> "int", id |-> 3]}

\* a pk beyond the stored reservations is answered 404
NextStaffStatus ==
    \E pk \in 1..MaxDayReservations : \E s \in PostedStatuses :
        StaffUpdateStatus(pk, s)

NextStaffTables ==
    \E pk \in 1..MaxDayReservations : \E t \in PostedTables :
        StaffUpdateTables(pk, t)

SpecStaff == InitStaff /\ [][NextStaffStatus \/ NextStaffTables]_vars

(***************************************************************************)
(* One booking request against a stored hour of groups: up to MaxTierRows  *)
(* rows of medium, large and very-large parties, under the default group   *)
(* rules and two other valid rule sets.  The capacities are the defaults,  *)
(* so every request reaches the group rules.                               *)
(***************************************************************************)
MaxTierRows == 3

\* medium 4..5, large from 6
CfgMedium ==
    [SettingsDefaults EXCEPT
        !.medium_group_min_size = 4,
        !.medium_group_max_size = 5,
        !.large_group_min_size = 6]

TierConfigs == {SettingsDefaults, CfgTiers, CfgMedium}

TierCandidates ==
    [date : BookingDates, time : {12 * 60, 13 * 60 + 30},
     party_size : {5, 6, 8, 9},
     seating_preference : {PREF_INDOOR, PREF_OUTDOOR},
     email : {TRUE}, phone : {TRUE}]

TierRows == {NewReservation(c) : c \in TierCandidates}

InitTiers ==
    /\ \E n \in 0..MaxTierRows : reservations \in [1..n -> TierRows]
    /\ settings \in TierConfigs
    /\ InitCalendar

NextTiers ==
    \E c \in TierCandidates :
        /\ response.op = "none"
        /\ CreateReservation(c)

SpecTiers == InitTiers /\ [][NextTiers]_vars

(***************************************************************************)
(* One booking request against a calendar: the OpeningHours rows, a        *)
(* SpecialOpeningDay for tomorrow, the time of day, and a form posted with *)
(* missing or refused fields.                                              *)
(***************************************************************************)
Today == 8
Tomorrow == Today + 1
Yesterday == Today - 1

HoursRow(is_open, open_time, close_time, last_res_time) ==
    [exists |-> TRUE, is_open |-> is_open, open_time |-> open_time,
     close_time |-> close_time, last_res_time |-> last_res_time]

\* the OpeningHours row of a weekday, the same for every weekday: the
\* standard hours; closed; no row; 13:00 to 16:00 with no last_res_time;
\* open with open_time left blank
WeekdayRows ==
    {HoursRow(TRUE, OPEN_TIME, 17 * 60, LAST_RES_TIME),
     HoursRow(FALSE, OPEN_TIME, 17 * 60, LAST_RES_TIME),
     [HoursRow(TRUE, OPEN_TIME, 17 * 60, LAST_RES_TIME)
          EXCEPT !.exists = FALSE],
     HoursRow(TRUE, 13 * 60, 16 * 60, NoneVal),
     HoursRow(TRUE, NoneVal, 16 * 60, NoneVal)}

SpecialDay(is_open, bookings_open_from, open_time, close_time) ==
    [date |-> Tomorrow, is_open |-> is_open,
     bookings_open_from |-> bookings_open_from,
     open_time |-> open_time, close_time |-> close_time,
     last_res_time |-> NoneVal]

\* no special day; one whose bookings open tomorrow; one open for booking
\* with the weekday hours; one marked closed; one with its own hours
SpecialDaySets ==
    {{},
     {SpecialDay(TRUE, Tomorrow, NoneVal, NoneVal)},
     {SpecialDay(TRUE, Today, NoneVal, NoneVal)},
     {SpecialDay(FALSE, Today, NoneVal, NoneVal)},
     {SpecialDay(TRUE, Today, 13 * 60, 16 * 60)}}

\* small capacities and other party-size caps
CfgParty ==
    [CfgSmall EXCEPT !.max_party_size_indoor = 8,
                     !.max_party_size_outdoor = 5]

\* 17:00 is not one of TIME_CHOICES
PostedForms ==
    [date : {NoneVal, Yesterday, Today, Tomorrow},
     time : {NoneVal, 12 * 60, 13 * 60, 16 * 60, 16 * 60 + 30, 17 * 60},
     party_size : {NoneVal, 2, 9, 13},
     seating_preference : {PREF_INDOOR, PREF_OUTDOOR},
     email : BOOLEAN, phone : BOOLEAN]

\* nothing stored, or a party of nine tomorrow at 12:00
StoredDays ==
    {<<>>,
     <<NewReservation([date |-> Tomorrow, time |-> 12 * 60,
                       party_size |-> 9,
                       seating_preference |-> PREF_NO_PREF])>>}

InitSchedule ==
    /\ reservations \in StoredDays
    /\ settings \in {NoSettings, CfgParty}
    /\ \E row \in WeekdayRows : opening_hours = [d \in 0..6 |-> row]
    /\ special_days \in SpecialDaySets
    /\ today = Today
    /\ now \in {10 * 60, 15 * 60 + 45, 23 * 60 + 50}
    /\ inflight = [w \in {1, 2} |-> Idle]
    /\ response = [op |-> "none"]

NextSchedule ==
    \E c \in PostedForms :
        /\ response.op = "none"
        /\ CreateReservation(c)

SpecSchedule == InitSchedule /\ [][NextSchedule]_vars

(***************************************************************************)
(* Table assignment on stored reservations of two dates, as the admin can  *)
(* leave them: confirmed, cancelled or no-show, holding no table, one or   *)
(* two.                                                                    *)
(***************************************************************************)
MaxTableRows == 2

\* date and time of a stored reservation: two of one date, one of another
TableSlots ==
    {[date |-> 1, time |-> 12 * 60], [date |-> 1, time |-> 13 * 60 + 30],
     [date |-> 2, time |-> 12 * 60]}

TableRows ==
    {[NewReservation([date |-> at.date, time |-> at.time, party_size |-> 2,
                      seating_preference |-> PREF_NO_PREF])
          EXCEPT !.status = s, !.tables = ts] :
        at \in TableSlots,
        s \in {"CONFIRMED", "CANCELLED", "NO_SHOW"},
        ts \in {{}, {1}, {1, 2}}}

InitTables ==
    /\ \E n \in 1..MaxTableRows : reservations \in [1..n -> TableRows]
    /\ settings \in {NoSettings, CfgDwell}
    /\ InitCalendar

NextTables ==
    \E pk \in 1..MaxTableRows : \E t \in PostedTables :
        StaffUpdateTables(pk, t)

SpecTables == InitTables /\ [][NextTables]_vars

(***************************************************************************)
(* views.compute_level: guests / capacity * 100 against 50 and 80.  The    *)
(* quotient is compared with whole numbers, so the comparison is made on   *)
(* guests * 100 and capacity; the level at or above 50 is cut at 80.       *)
(***************************************************************************)
\* the cuts belong to the lower level: 50 percent is calm, 80 percent busy
compute_level_cut_below(guests, capacity) ==
    IF capacity = 0 THEN "unknown"
    ELSE IF guests * 100 <= 50 * capacity THEN "calm"
    ELSE IF guests * 100 <= 80 * capacity THEN "busy"
    ELSE "very_busy"

\* pct < 50, pct < 80, else
compute_level(guests, capacity) ==
    IF capacity = 0 THEN "unknown"
    ELSE LET pct == (guests * 100) \div capacity
         IN IF pct < 50 THEN "calm"
            ELSE IF pct < 80 THEN "busy"
            ELSE "very_busy"

(***************************************************************************)
(* compute_level on every occupancy up to MaxLevelGuests and every         *)
(* capacity up to MaxLevelCapacity.                                        *)
(***************************************************************************)
MaxLevelGuests == 25
MaxLevelCapacity == 10

EvalLevel(guests, capacity) ==
    /\ response' = [op |-> "level", guests |-> guests,
                    capacity |-> capacity,
                    level |-> compute_level(guests, capacity)]
    /\ UNCHANGED <<reservations, settings, opening_hours, special_days,
                   today, now, inflight>>

InitLevel ==
    /\ reservations = <<>>
    /\ settings = NoSettings
    /\ InitCalendar

NextLevel ==
    \E guests \in 0..MaxLevelGuests : \E capacity \in 0..MaxLevelCapacity :
        EvalLevel(guests, capacity)

SpecLevel == InitLevel /\ [][NextLevel]_vars

(***************************************************************************)
(* views.classify_area: the assigned area when the reservation carries     *)
(* one, the seating preference otherwise.  A reservation without           *)
(* assigned_area, or with a blank one, takes the fall-back.                *)
(***************************************************************************)
getattr_assigned_area(reservation) ==
    IF "assigned_area" \in DOMAIN reservation
    THEN reservation.assigned_area ELSE ""

\* str(area).upper(), on the areas tried
str_upper(area) ==
    CASE area = "indoor" -> "INDOOR"
      [] area = "outdoor" -> "OUTDOOR"
      [] OTHER -> area

\* none of the areas tried is longer than the prefix
startswith(area_str, prefix) == area_str = prefix

\* NO_PREF counts as indoor, as the admission check has it
classify_area_as_zone(reservation) ==
    IF reservation.seating_preference = PREF_OUTDOOR
    THEN "outdoor" ELSE "indoor"

\* assigned_area first, then INDOOR is indoor and the rest unassigned
classify_area(reservation) ==
    LET area == getattr_assigned_area(reservation)
        area_str == str_upper(area)
    IN IF area # "" /\ startswith(area_str, "INDOOR") THEN "indoor"
       ELSE IF area # "" /\ startswith(area_str, "OUTDOOR") THEN "outdoor"
       ELSE IF reservation.seating_preference = PREF_INDOOR THEN "indoor"
       ELSE "unassigned"

(***************************************************************************)
(* views.build_capacity_timeblocks: the 15-minute slots from the earliest  *)
(* start of an active reservation, floored to a slot, up to the latest     *)
(* end, each with the guests per area of the reservations overlapping it.  *)
(***************************************************************************)
active_statuses == {"PENDING", "CONFIRMED", "SEATED", "COMPLETED"}

\* a no-show still counts
IsActiveOrNoShow(r) == r.status \in active_statuses \cup {"NO_SHOW"}

\* r.status in active_statuses
IsActive(r) == r.status \in active_statuses

SetMin(S) == CHOOSE x \in S : \A y \in S : x <= y
SetMax(S) == CHOOSE x \in S : \A y \in S : x >= y

\* the inner loop: party sizes of the area whose window overlaps the slot
RECURSIVE AreaLoad(_, _, _, _, _, _, _)
AreaLoad(td, active, dwell_minutes, slot_start, slot_end, area, i) ==
    IF i > Len(active) THEN 0
    ELSE LET r == active[i]
             res_start == dt_combine(td, r.time)
             res_end == res_start + dwell_minutes
         IN (IF SlotOverlap(res_start, res_end, slot_start, slot_end)
                /\ classify_area(r) = area
             THEN r.party_size ELSE 0)
            + AreaLoad(td, active, dwell_minutes, slot_start, slot_end,
                       area, i + 1)

TimeBlock(td, active, dwell_minutes, caps, slot_start) ==
    LET slot_end == slot_start + SLOT_MINUTES
        indoor == AreaLoad(td, active, dwell_minutes, slot_start, slot_end,
                           "indoor", 1)
        outdoor == AreaLoad(td, active, dwell_minutes, slot_start, slot_end,
                            "outdoor", 1)
        unassigned == AreaLoad(td, active, dwell_minutes, slot_start,
                               slot_end, "unassigned", 1)
        total == indoor + outdoor + unassigned
    IN [start |-> slot_start, end |-> slot_end,
        indoor |-> indoor, outdoor |-> outdoor,
        unassigned |-> unassigned, total |-> total,
        indoor_level |-> compute_level(indoor, caps.indoor),
        outdoor_level |-> compute_level(outdoor, caps.outdoor),
        total_level |-> compute_level(total, caps.indoor + caps.outdoor)]

build_capacity_timeblocks(td, rs, dwell_minutes, caps) ==
    LET active == SelectSeq(rs, IsActive)
    IN IF active = <<>> THEN <<>>
       ELSE LET starts == {dt_combine(td, active[i].time) :
                               i \in DOMAIN active}
                earliest_start == SetMin(starts)
                latest_end == SetMax(starts) + dwell_minutes
                start_minutes == earliest_start % MinutesPerDay
                floored_minutes ==
                    (start_minutes \div SLOT_MINUTES) * SLOT_MINUTES
                slot_start_dt == dt_combine(td, floored_minutes)
                count == (latest_end - slot_start_dt + SLOT_MINUTES - 1)
                             \div SLOT_MINUTES
            IN [k \in 1..count |->
                    TimeBlock(td, active, dwell_minutes, caps,
                              slot_start_dt + (k - 1) * SLOT_MINUTES)]

(***************************************************************************)
(* views.aggregate_hourly: one entry per clock hour with the largest load  *)
(* of each metric among its slots, in hour order, hours without load       *)
(* skipped, is_past against the supplied now.                              *)
(***************************************************************************)
HourOf(start) == start - (start % 60)

RECURSIVE sum_load(_, _, _, _)
\* the loads of the slots of the hour are added up
sum_load(timeblocks, hour, metric, i) ==
    IF i > Len(timeblocks) THEN 0
    ELSE (IF HourOf(timeblocks[i].start) = hour
          THEN timeblocks[i][metric] ELSE 0)
         + sum_load(timeblocks, hour, metric, i + 1)

RECURSIVE max_load(_, _, _, _)
\* entry[metric] = max(entry[metric], block[metric]), from 0
max_load(timeblocks, hour, metric, i) ==
    IF i > Len(timeblocks) THEN 0
    ELSE LET rest == max_load(timeblocks, hour, metric, i + 1)
             load == IF HourOf(timeblocks[i].start) = hour
                     THEN timeblocks[i][metric] ELSE 0
         IN IF load >= rest THEN load ELSE rest

HourEntry(timeblocks, hour, caps, supplied_now) ==
    LET indoor == max_load(timeblocks, hour, "indoor", 1)
        outdoor == max_load(timeblocks, hour, "outdoor", 1)
        unassigned == max_load(timeblocks, hour, "unassigned", 1)
        total == max_load(timeblocks, hour, "total", 1)
    IN [start |-> hour, end |-> hour + 60,
        indoor |-> indoor, outdoor |-> outdoor,
        unassigned |-> unassigned, total |-> total,
        indoor_level |-> compute_level(indoor, caps.indoor),
        outdoor_level |-> compute_level(outdoor, caps.outdoor),
        total_level |-> compute_level(total, caps.indoor + caps.outdoor),
        is_past |-> IF supplied_now # NoneVal
                    THEN hour + 60 <= supplied_now ELSE FALSE]

RECURSIVE hour_list_unfiltered(_, _, _, _)
\* every hour of the slots is listed, loaded or not
hour_list_unfiltered(hours, timeblocks, caps, supplied_now) ==
    IF hours = {} THEN <<>>
    ELSE LET h == SetMin(hours)
         IN <<HourEntry(timeblocks, h, caps, supplied_now)>>
            \o hour_list_unfiltered(hours \ {h}, timeblocks, caps,
                                    supplied_now)

RECURSIVE hour_list(_, _, _, _)
\* sorted(hourly.items()), hours with no load skipped
hour_list(hours, timeblocks, caps, supplied_now) ==
    IF hours = {} THEN <<>>
    ELSE LET h == SetMin(hours)
             entry == HourEntry(timeblocks, h, caps, supplied_now)
         IN (IF entry.total = 0 THEN <<>> ELSE <<entry>>)
            \o hour_list(hours \ {h}, timeblocks, caps, supplied_now)

aggregate_hourly(timeblocks, caps, supplied_now) ==
    IF timeblocks = <<>> THEN <<>>
    ELSE hour_list({HourOf(timeblocks[i].start) : i \in DOMAIN timeblocks},
                   timeblocks, caps, supplied_now)

(***************************************************************************)
(* The capacity timeline of a day: build_capacity_timeblocks and           *)
(* aggregate_hourly as staff_today chains them, on up to MaxTimelineRows   *)
(* reservations of today, with and without a supplied now.                 *)
(***************************************************************************)
MaxTimelineRows == 2

\* a reservation as stored, in each status
StatusRows ==
    {[NewReservation([date |-> Today, time |-> 12 * 60, party_size |-> 2,
                      seating_preference |-> PREF_INDOOR])
          EXCEPT !.status = s] : s \in Statuses}

\* confirmed reservations of each preference, starting on and off a slot
PreferenceRows ==
    {NewReservation([date |-> Today, time |-> at.time,
                     party_size |-> at.party_size,
                     seating_preference |-> p]) :
        at \in {[time |-> 12 * 60, party_size |-> 5],
                [time |-> 12 * 60 + 10, party_size |-> 2],
                [time |-> 15 * 60, party_size |-> 5]},
        p \in SeatingPreferences}

\* reservations handed over with an assigned_area
AreaRows ==
    {[date |-> Today, time |-> t, party_size |-> 5,
      seating_preference |-> p, status |-> "CONFIRMED",
      source |-> "ONLINE", tables |-> {}, assigned_area |-> area] :
        t \in {12 * 60}, p \in {PREF_INDOOR, PREF_NO_PREF},
        area \in {"INDOOR", "outdoor", "OUTDOOR", "GARDEN", ""}}

TimelineRows == StatusRows \cup PreferenceRows \cup AreaRows

CapacityTimeline(supplied_now) ==
    \E quarter_blocks \in
           {build_capacity_timeblocks(today, reservations,
                                      get_dwell_minutes(settings),
                                      get_capacity_limits(settings))} :
        /\ response' =
               [op |-> "timeline", now |-> supplied_now,
                quarter_blocks |-> quarter_blocks,
                hour_blocks |->
                    aggregate_hourly(quarter_blocks,
                                     get_capacity_limits(settings),
                                     supplied_now)]
        /\ UNCHANGED <<reservations, settings, opening_hours, special_days,
                       today, now, inflight>>

InitTimeline ==
    /\ \E n \in 0..MaxTimelineRows : reservations \in [1..n -> TimelineRows]
    /\ settings \in {NoSettings, CfgDwell}
    /\ opening_hours = EveryDayOpen
    /\ special_days = {}
    /\ today = Today
    /\ now = 14 * 60
    /\ inflight = [w \in {1, 2} |-> Idle]
    /\ response = [op |-> "none"]

NextTimeline ==
    \E supplied_now \in {NoneVal, dt_combine(today, now)} :
        CapacityTimeline(supplied_now)

SpecTimeline == InitTimeline /\ [][NextTimeline]_vars

(***************************************************************************)
(* One booking request under group rules the admin saved out of order: a   *)
(* medium range that ends below its start, a large group that starts       *)
(* inside the medium range, a very-large group that starts below the large *)
(* one.  The model fields carry no validator that relates them.            *)
(***************************************************************************)
CfgMediumReversed ==
    [SettingsDefaults EXCEPT !.medium_group_min_size = 6,
                             !.medium_group_max_size = 5]

CfgLargeInsideMedium == [SettingsDefaults EXCEPT !.large_group_min_size = 5]

CfgVeryLargeBelowLarge ==
    [SettingsDefaults EXCEPT !.very_large_group_min_size = 6]

UnorderedConfigs ==
    {CfgMediumReversed, CfgLargeInsideMedium, CfgVeryLargeBelowLarge}

InitUnordered ==
    /\ reservations \in {<<>>} \cup {<<r>> : r \in TierRows}
    /\ settings \in UnorderedConfigs
    /\ InitCalendar

NextUnordered ==
    \E c \in TierCandidates :
        /\ response.op = "none"
        /\ CreateReservation(c)

SpecUnordered == InitUnordered /\ [][NextUnordered]_vars

(***************************************************************************)
(* Online bookings and staff status changes on one day, one request at a   *)
(* time, from an empty table.  The dwell is the default of 90 minutes, the *)
(* duration that clean() itself uses.                                      *)
(***************************************************************************)
InitReopen ==
    /\ reservations = <<>>
    /\ settings \in {NoSettings, CfgSmall}
    /\ InitCalendar

\* bookings of two and of nine guests at 12:00, in either zone
ReopenCandidates ==
    {c \in Candidates : c.time = 12 * 60 /\ c.party_size \in {2, 9}}

NextReopenCreate ==
    \E c \in ReopenCandidates :
        /\ CreateReservation(c)
        /\ Len(reservations') <= MaxReservations

SpecReopen == InitReopen /\ [][NextReopenCreate \/ NextStaffStatus]_vars

(***************************************************************************)
(* Online bookings of groups on one day, one request at a time, from an    *)
(* empty table, with the default configuration (no settings row, or a row  *)
(* of field defaults).  12:00 and 14:00 do not overlap; 13:00 overlaps     *)
(* both.                                                                   *)
(***************************************************************************)
MaxGroupRows == 4

GroupCandidates ==
    {c \in [date : BookingDates, time : {12 * 60, 13 * 60, 14 * 60},
            party_size : {5, 7, 9}, seating_preference : {PREF_INDOOR},
            email : {TRUE}, phone : {TRUE}] :
         c.party_size = 9 => c.time = 13 * 60}
    \cup [date : BookingDates, time : {12 * 60}, party_size : {7},
          seating_preference : {PREF_OUTDOOR}, email : {TRUE},
          phone : {TRUE}]

InitGroups ==
    /\ reservations = <<>>
    /\ settings \in {NoSettings, SettingsDefaults}
    /\ InitCalendar

NextGroups ==
    \E c \in GroupCandidates :
        /\ CreateReservation(c)
        /\ Len(reservations') <= MaxGroupRows

SpecGroups == InitGroups /\ [][NextGroups]_vars

(***************************************************************************)
(* One booking request while the online form is closed or open in the      *)
(* settings, with the standard hours on every weekday and any of the       *)
(* special days of tomorrow.                                               *)
(***************************************************************************)
CfgClosed == [CfgSmall EXCEPT !.reservations_open = FALSE]

ClosureForms ==
    [date : {Today, Tomorrow}, time : {12 * 60, 13 * 60},
     party_size : {2, 9}, seating_preference : {PREF_INDOOR, PREF_OUTDOOR},
     email : {TRUE}, phone : {TRUE}]

InitClosure ==
    /\ reservations \in StoredDays
    /\ settings \in {NoSettings, CfgSmall, CfgClosed}
    /\ opening_hours = EveryDayOpen
    /\ special_days \in SpecialDaySets
    /\ today = Today
    /\ now = 10 * 60
    /\ inflight = [w \in {1, 2} |-> Idle]
    /\ response = [op |-> "none"]

NextClosure ==
    \E c \in ClosureForms :
        /\ response.op = "none"
        /\ CreateReservation(c)

SpecClosure == InitClosure /\ [][NextClosure]_vars

(***************************************************************************)
(* Status changes on stored reservations as the admin can leave them:      *)
(* pending or confirmed, with or without a table.  The posted status is    *)
(* any status, empty, or a word that is no status.                         *)
(***************************************************************************)
MaxStatusRows == 2

StatusChangeRows ==
    [date : {1}, time : {12 * 60}, party_size : {2},
     seating_preference : {PREF_NO_PREF},
     status : {"PENDING", "CONFIRMED"}, source : {"ONLINE"},
     tables : {{}, {1}}]

PostedStatusValues == Statuses \cup {"", "UNKNOWN"}

InitStatus ==
    /\ \E n \in 1..MaxStatusRows :
           reservations \in [1..n -> StatusChangeRows]
    /\ settings = NoSettings
    /\ InitCalendar

\* a pk beyond the stored reservations is answered 404
NextStatus ==
    \E pk \in 1..(MaxStatusRows + 1) : \E s \in PostedStatusValues :
        StaffUpdateStatus(pk, s)

SpecStatus == InitStatus /\ [][NextStatus]_vars

(***************************************************************************)
(* ReservationAdminForm.__init__ for a stored reservation: the tables left *)
(* out of the queryset of the tables field.                                *)
(***************************************************************************)
\* ReservationAdminForm.DWELL_MINUTES
ADMIN_DWELL_MINUTES == 90

busy_table_ids(pk, rs) ==
    LET instance == rs[pk]
        start == dt_combine(instance.date, instance.time)
        end == start + ADMIN_DWELL_MINUTES
        other_reservations ==
            {o \in DOMAIN rs : rs[o].date = instance.date /\ o # pk}
        busy ==
            UNION {rs[o].tables : o \in
                {o \in other_reservations :
                    /\ start < dt_combine(rs[o].date, rs[o].time)
                                   + ADMIN_DWELL_MINUTES
                    /\ dt_combine(rs[o].date, rs[o].time) < end}}
    IN busy \ instance.tables

\* the change form of reservation pk is opened in the admin
OpenAdminForm(pk) ==
    /\ pk \in DOMAIN reservations
    /\ response' = [op |-> "admin_form", pk |-> pk,
                    busy |-> busy_table_ids(pk, reservations)]
    /\ UNCHANGED <<reservations, settings, opening_hours, special_days,
                   today, now, inflight>>

InitAdminForm ==
    /\ \E n \in 1..MaxTableRows : reservations \in [1..n -> TableRows]
    /\ settings \in {NoSettings, CfgDwell}
    /\ InitCalendar

NextAdminForm == \E pk \in 1..MaxTableRows : OpenAdminForm(pk)

SpecAdminForm == InitAdminForm /\ [][NextAdminForm]_vars

(***************************************************************************)
(* The vocabulary of the claims: windows [time, time + dwell), the load of *)
(* a zone, and the reasons of a rejection.                                 *)
(***************************************************************************)
RECURSIVE PartySum(_)
PartySum(rs) ==
    IF rs = <<>> THEN 0 ELSE Head(rs).party_size + PartySum(Tail(rs))

\* the reservations of a date and a set of preferences that are not cancelled
ActiveOf(rs, date, prefs) ==
    SelectSeq(rs, LAMBDA r : /\ r.date = date
                             /\ r.seating_preference \in prefs
                             /\ r.status # "CANCELLED")

\* guests of the reservations whose window overlaps [start, start + dwell)
WindowLoad(rs, date, prefs, start, dwell) ==
    PartySum(SelectSeq(ActiveOf(rs, date, prefs),
                       LAMBDA r : /\ r.time < start + dwell
                                  /\ start < r.time + dwell))

\* guests of the reservations whose window contains the instant t
InstantLoad(rs, date, prefs, t, dwell) ==
    PartySum(SelectSeq(ActiveOf(rs, date, prefs),
                       LAMBDA r : r.time <= t /\ t < r.time + dwell))

\* the zone of a preference as the specification classifies it
IndoorZone == {PREF_INDOOR, PREF_NO_PREF}
OutdoorZone == {PREF_OUTDOOR}
ZoneOf(pref) == IF pref = PREF_OUTDOOR THEN OutdoorZone ELSE IndoorZone
ZoneCapacity(zone, S) ==
    IF zone = OutdoorZone
    THEN get_capacity_limits(S).outdoor ELSE get_capacity_limits(S).indoor

SuggestOutdoor == <<"seating_preference", "suggest_outdoor">>
FullyBooked == <<"time", "fully_booked">>
CapacityReasons == {SuggestOutdoor, FullyBooked}
TierReasons ==
    {<<"time", "one_very_large">>, <<"time", "large_limit">>,
     <<"time", "medium_limit">>, <<"time", "outdoor_large_limit">>}

CountOf(errors, reasons) ==
    Cardinality({i \in DOMAIN errors : errors[i] \in reasons})

Evaluated == response.op = "create"
CapacityRejected == Evaluated /\ CountOf(response.errors, CapacityReasons) > 0

\* two windows share an instant
SharesInstant(a, lenA, b, lenB) ==
    \E t \in a..(a + lenA - 1) : b <= t /\ t < b + lenB

(***************************************************************************)
(* C1: no table is double-booked.  After any sequence of                   *)
(* staff_update_tables and staff_update_status requests on a day that      *)
(* started without table assignments, no two different reservations of the *)
(* same date, both neither cancelled nor no-show, with overlapping windows *)
(* [time, time + dwell_minutes) hold the same table.                       *)
(***************************************************************************)
C1_NoTableDoubleBooked ==
    \A i \in DOMAIN reservations : \A j \in DOMAIN reservations :
        (/\ i # j
         /\ reservations[i].date = reservations[j].date
         /\ reservations[i].status \notin {"CANCELLED", "NO_SHOW"}
         /\ reservations[j].status \notin {"CANCELLED", "NO_SHOW"}
         /\ reservations[i].time
                < reservations[j].time + settings.dwell_minutes
         /\ reservations[j].time
                < reservations[i].time + settings.dwell_minutes)
        => reservations[i].tables \cap reservations[j].tables = {}

(***************************************************************************)
(* C2: zone capacity is never exceeded by accepted bookings.  From an      *)
(* empty table, with the configuration unchanged, after any sequence of    *)
(* create_reservation requests handled one at a time, for each zone, each  *)
(* date and each instant, the guests of the non-cancelled reservations of  *)
(* the zone whose window [time, time + dwell_minutes) contains the instant *)
(* are at most the capacity of the zone.  Every booking starts on a        *)
(* quarter hour and the dwell is a multiple of 15, so the load is constant *)
(* between the instants of TIME_CHOICES.                                   *)
(***************************************************************************)
C2_ZoneCapacityNeverExceeded ==
    \A zone \in {IndoorZone, OutdoorZone} : \A date \in BookingDates :
        \A t \in TIME_CHOICES :
            InstantLoad(reservations, date, zone, t, settings.dwell_minutes)
                <= ZoneCapacity(zone, settings)

(***************************************************************************)
(* C3: reading the reservations, evaluating and writing the new            *)
(* reservation is one atomic step.  Whatever the interleaving of two       *)
(* create_reservation requests, a request is never saved when the guests   *)
(* of its zone overlapping its window, itself included, are then above the *)
(* capacity of the zone.                                                   *)
(***************************************************************************)
C3_NoOversellUnderInterleaving ==
    (Evaluated /\ response.saved) =>
        WindowLoad(reservations, response.cand.date,
                   ZoneOf(response.cand.seating_preference),
                   response.cand.time, settings.dwell_minutes)
            <= ZoneCapacity(ZoneOf(response.cand.seating_preference),
                            settings)

(***************************************************************************)
(* C4: the overlap test of admission control (both loops), of the          *)
(* timeline and of the blocked tables is the half-open one.  For starts a, *)
(* b and a dwell d > 0 it is true exactly when [a, a + d) and [b, b + d)   *)
(* share an instant, which is a < b + d and b < a + d: windows that only   *)
(* touch never overlap, windows sharing an instant always do.  The         *)
(* timeline tests the window against the slot [b, b + SLOT_MINUTES).       *)
(***************************************************************************)
C4_OverlapIsHalfOpen ==
    response.op = "overlap" =>
        /\ response.clean
               = SharesInstant(response.a, response.dwell,
                               response.b, response.dwell)
        /\ response.clean
               = (/\ response.a < response.b + response.dwell
                  /\ response.b < response.a + response.dwell)
        /\ response.outdoor = response.clean
        /\ response.blocked = response.clean
        /\ response.slot
               = SharesInstant(response.a, response.dwell,
                               response.b, SLOT_MINUTES)
        /\ (\/ response.b = response.a + response.dwell
            \/ response.a = response.b + response.dwell)
           => ~response.clean /\ ~response.outdoor /\ ~response.blocked
        /\ (\/ response.b = response.a + response.dwell
            \/ response.a = response.b + SLOT_MINUTES)
           => ~response.slot

\* two windows that touch were tested and found not to overlap
C4_Witness ==
    /\ response.op = "overlap"
    /\ response.b = response.a + response.dwell
    /\ ~response.clean /\ ~response.blocked /\ ~response.slot

(***************************************************************************)
(* C5: for a candidate that passes every other check, the capacity step    *)
(* rejects exactly when concurrentGuests + party_size > zoneCapacity,      *)
(* concurrentGuests being the guests of the non-cancelled reservations of  *)
(* the date and zone whose window [time, time + dwell_minutes) overlaps    *)
(* the candidate's.                                                        *)
(***************************************************************************)
C5_CapacityRejectsIffOverCapacity ==
    (/\ Evaluated
     /\ \A i \in DOMAIN response.errors :
            response.errors[i] \in CapacityReasons)
    => (CapacityRejected
        <=> WindowLoad(response.seen, response.cand.date,
                       ZoneOf(response.cand.seating_preference),
                       response.cand.time, settings.dwell_minutes)
                + response.cand.party_size
            > ZoneCapacity(ZoneOf(response.cand.seating_preference),
                           settings))

(***************************************************************************)
(* C6: zone classification.  An OutdoorIfPossible candidate is checked     *)
(* against the outdoor capacity and the OutdoorIfPossible reservations     *)
(* only; an IndoorOnly or NoPreference candidate against the indoor        *)
(* capacity and the IndoorOnly and NoPreference reservations together.     *)
(* The capacity step rejects exactly when the guests of those reservations *)
(* that admission control counts as overlapping (its own test, windows of  *)
(* DWELL_MINUTES), plus the party, exceed that capacity.                   *)
(***************************************************************************)
C6_ZoneClassification ==
    Evaluated =>
        (CapacityRejected
         <=> IF response.cand.seating_preference = PREF_OUTDOOR
             THEN WindowLoad(response.seen, response.cand.date,
                             {PREF_OUTDOOR}, response.cand.time,
                             DWELL_MINUTES)
                      + response.cand.party_size
                  > get_capacity_limits(settings).outdoor
             ELSE WindowLoad(response.seen, response.cand.date,
                             {PREF_INDOOR, PREF_NO_PREF}, response.cand.time,
                             DWELL_MINUTES)
                      + response.cand.party_size
                  > get_capacity_limits(settings).indoor)

\* a no-preference candidate was rejected for capacity by the guests of
\* indoor-only reservations, with outdoor reservations stored as well
C6_Witness ==
    /\ CapacityRejected
    /\ response.cand.seating_preference = PREF_NO_PREF
    /\ \E i \in DOMAIN response.seen :
           response.seen[i].seating_preference = PREF_INDOOR
    /\ \E i \in DOMAIN response.seen :
           response.seen[i].seating_preference = PREF_OUTDOOR

(***************************************************************************)
(* C7: when the indoor capacity check fails, the rejection is the          *)
(* suggest-outdoor one, on the seating preference, exactly when the        *)
(* candidate has no preference and the guests of the non-cancelled outdoor *)
(* reservations overlapping its window [time, time + dwell_minutes), plus  *)
(* the party, are at most the outdoor capacity; every other capacity       *)
(* failure is the generic fully-booked one.                                *)
(***************************************************************************)
C7_SuggestOutdoorIffOutdoorHasRoom ==
    CapacityRejected =>
        LET suggest ==
                /\ response.cand.seating_preference = PREF_NO_PREF
                /\ WindowLoad(response.seen, response.cand.date, OutdoorZone,
                              response.cand.time, settings.dwell_minutes)
                       + response.cand.party_size
                   <= get_capacity_limits(settings).outdoor
        IN /\ suggest => CountOf(response.errors, {SuggestOutdoor}) = 1
                         /\ CountOf(response.errors, {FullyBooked}) = 0
           /\ ~suggest => CountOf(response.errors, {FullyBooked}) = 1
                          /\ CountOf(response.errors, {SuggestOutdoor}) = 0

(***************************************************************************)
(* C8: a capacity rejection is terminal.  Whenever a candidate is rejected *)
(* for zone capacity, generic or suggest-outdoor, the result holds exactly *)
(* one capacity reason and no group-tier reason, whatever the sizes of the *)
(* overlapping reservations.                                               *)
(***************************************************************************)
C8_CapacityRejectionIsTerminal ==
    CapacityRejected =>
        /\ CountOf(response.errors, CapacityReasons) = 1
        /\ CountOf(response.errors, TierReasons) = 0

\* a very-large indoor candidate rejected for capacity while a very-large
\* indoor reservation of the same time is stored
C8_Witness ==
    /\ CapacityRejected
    /\ response.cand.seating_preference = PREF_INDOOR
    /\ response.cand.party_size >= VERY_LARGE_PARTY_THRESHOLD
    /\ \E i \in DOMAIN response.seen :
           /\ response.seen[i].seating_preference = PREF_INDOOR
           /\ response.seen[i].party_size >= VERY_LARGE_PARTY_THRESHOLD
           /\ response.seen[i].time = response.cand.time

(***************************************************************************)
(* C9: an indoor candidate of very-large size, party_size >=               *)
(* very_large_min of the configuration, that reaches the group rules is    *)
(* rejected by the very-large rule exactly when a non-cancelled indoor     *)
(* reservation of very-large size overlaps its window.  The windows are    *)
(* those admission control itself counts as overlapping (DWELL_MINUTES),   *)
(* so the dwell does not decide.                                           *)
(***************************************************************************)
VeryLargeOverlapping(c, rs, S) ==
    SelectSeq(ActiveOf(rs, c.date, IndoorZone),
              LAMBDA r : /\ r.party_size >= get_group_rules(S).very_large_min
                         /\ r.time < c.time + DWELL_MINUTES
                         /\ c.time < r.time + DWELL_MINUTES)

C9_VeryLargeRule ==
    (/\ Evaluated
     /\ ~CapacityRejected
     /\ response.cand.seating_preference \in IndoorZone
     /\ response.cand.party_size >= get_group_rules(settings).very_large_min)
    => (CountOf(response.errors, {<<"time", "one_very_large">>}) > 0
        <=> Len(VeryLargeOverlapping(response.cand, response.seen,
                                     settings)) >= 1)

(***************************************************************************)
(* C10: a candidate of large size, party_size >= large_min of the          *)
(* configuration, that reaches the group rules is rejected by the          *)
(* large-group rule exactly when the overlapping large reservations of its *)
(* zone plus one exceed the large cap of the zone, max_large_indoor or     *)
(* max_large_outdoor.  The windows are those admission control itself      *)
(* counts as overlapping (DWELL_MINUTES).                                  *)
(***************************************************************************)
LargeOverlapping(c, rs, S) ==
    SelectSeq(ActiveOf(rs, c.date, ZoneOf(c.seating_preference)),
              LAMBDA r : /\ r.party_size >= get_group_rules(S).large_min
                         /\ r.time < c.time + DWELL_MINUTES
                         /\ c.time < r.time + DWELL_MINUTES)

LargeCap(pref, S) ==
    IF pref = PREF_OUTDOOR
    THEN get_group_rules(S).max_large_outdoor
    ELSE get_group_rules(S).max_large_indoor

C10_LargeRule ==
    (/\ Evaluated
     /\ ~CapacityRejected
     /\ response.cand.party_size >= get_group_rules(settings).large_min)
    => (CountOf(response.errors,
                {<<"time", "large_limit">>,
                 <<"time", "outdoor_large_limit">>}) > 0
        <=> Len(LargeOverlapping(response.cand, response.seen, settings)) + 1
            > LargeCap(response.cand.seating_preference, settings))

(***************************************************************************)
(* The group rules as the specification words them, with the boundaries    *)
(* and caps of the configuration; windows as admission control counts them *)
(* (DWELL_MINUTES).                                                        *)
(***************************************************************************)
IsMedium(size, S) ==
    /\ get_group_rules(S).medium_min <= size
    /\ size <= get_group_rules(S).medium_max
IsLarge(size, S) == size >= get_group_rules(S).large_min
IsVeryLarge(size, S) == size >= get_group_rules(S).very_large_min

MediumOverlapping(c, rs, S) ==
    SelectSeq(ActiveOf(rs, c.date, ZoneOf(c.seating_preference)),
              LAMBDA r : /\ IsMedium(r.party_size, S)
                         /\ r.time < c.time + DWELL_MINUTES
                         /\ c.time < r.time + DWELL_MINUTES)

\* the counts of the medium rule, the candidate included
LargeCountWith(c, rs, S) ==
    Len(LargeOverlapping(c, rs, S))
        + (IF IsLarge(c.party_size, S) THEN 1 ELSE 0)
MediumCountWith(c, rs, S) ==
    Len(MediumOverlapping(c, rs, S))
        + (IF IsMedium(c.party_size, S) THEN 1 ELSE 0)

ReasonsOf(errors) == {errors[i] : i \in DOMAIN errors}

\* the request reached the group rules
ReachedTiers ==
    /\ Evaluated
    /\ ~CapacityRejected
    /\ response.cand.date # NoneVal
    /\ response.cand.time \in TIME_CHOICES
    /\ response.cand.party_size # NoneVal
    /\ response.cand.party_size # 0
    /\ <<"date", "not_open_yet">> \notin ReasonsOf(response.errors)

(***************************************************************************)
(* C11: indoor medium rule.  When the overlapping large indoor             *)
(* reservations, the candidate counted if it is large, are at least 2, the *)
(* candidate is rejected by the medium rule exactly when the overlapping   *)
(* medium reservations (size in medium_min..medium_max), the candidate     *)
(* counted if it is medium, are more than 1; below 2 large ones the rule   *)
(* never rejects.                                                          *)
(***************************************************************************)
C11_MediumRule ==
    (ReachedTiers /\ response.cand.seating_preference \in IndoorZone)
    => (<<"time", "medium_limit">> \in ReasonsOf(response.errors)
        <=> (/\ LargeCountWith(response.cand, response.seen, settings) >= 2
             /\ MediumCountWith(response.cand, response.seen, settings) > 1))

(***************************************************************************)
(* C12: the group rules use one set of boundaries and the caps of the      *)
(* configuration.  For every valid configuration the group reasons of a    *)
(* request are those the rules of the specification give with the values   *)
(* of that configuration, for the candidate and for the overlapping        *)
(* reservations alike.                                                     *)
(***************************************************************************)
SpecTierReasons(c, rs, S) ==
    IF c.seating_preference \in IndoorZone
    THEN   (IF /\ IsVeryLarge(c.party_size, S)
               /\ Len(VeryLargeOverlapping(c, rs, S)) + 1
                      > get_group_rules(S).max_very_large_indoor
            THEN {<<"time", "one_very_large">>} ELSE {})
      \cup (IF /\ IsLarge(c.party_size, S)
               /\ Len(LargeOverlapping(c, rs, S)) + 1
                      > get_group_rules(S).max_large_indoor
            THEN {<<"time", "large_limit">>} ELSE {})
      \cup (IF /\ LargeCountWith(c, rs, S) >= 2
               /\ MediumCountWith(c, rs, S) > 1
            THEN {<<"time", "medium_limit">>} ELSE {})
    ELSE IF /\ IsLarge(c.party_size, S)
            /\ Len(LargeOverlapping(c, rs, S)) + 1
                   > get_group_rules(S).max_large_outdoor
         THEN {<<"time", "outdoor_large_limit">>} ELSE {}

ValidTierConfig(S) ==
    /\ get_group_rules(S).medium_min <= get_group_rules(S).medium_max
    /\ get_group_rules(S).medium_max < get_group_rules(S).large_min
    /\ get_group_rules(S).large_min <= get_group_rules(S).very_large_min

C12_TiersFollowConfiguration ==
    (ReachedTiers /\ ValidTierConfig(settings))
    => ReasonsOf(response.errors) \cap TierReasons
           = SpecTierReasons(response.cand, response.seen, settings)

(***************************************************************************)
(* C13: party-size bound.  For every configuration, a candidate larger     *)
(* than max_party_size_indoor gets the party-size reason whatever its      *)
(* preference, a candidate preferring outdoor and larger than              *)
(* max_party_size_outdoor gets the outdoor party-size reason, and a        *)
(* candidate within both configured bounds gets no party-size reason.      *)
(***************************************************************************)
MaxPartyIndoor(S) ==
    IF S.exists THEN S.max_party_size_indoor ELSE MAX_PARTY_SIZE

MaxPartyOutdoor(S) ==
    IF S.exists THEN S.max_party_size_outdoor ELSE OUTDOOR_MAX_PARTY_SIZE

TooLargeReason == <<"party_size", "max_party_size">>
TooLargeOutdoorReason == <<"party_size", "outdoor_max_party_size">>

C13_PartySizeBound ==
    (Evaluated /\ response.cand.party_size # NoneVal) =>
        LET c == response.cand
            reasons == ReasonsOf(response.errors)
            over_indoor == c.party_size > MaxPartyIndoor(settings)
            over_outdoor == /\ c.seating_preference \in OutdoorZone
                            /\ c.party_size > MaxPartyOutdoor(settings)
        IN /\ over_indoor <=> TooLargeReason \in reasons
           /\ over_outdoor <=> TooLargeOutdoorReason \in reasons

(***************************************************************************)
(* C14: the special-day booking window is terminal.  When a                *)
(* SpecialOpeningDay exists for the candidate's date and today is before   *)
(* its bookings_open_from, the request is rejected with the not-open-yet   *)
(* reason on the date and gets no reason from a later step (opening hours, *)
(* lead time, zone capacity, group rules), whatever the time, the party    *)
(* size and the stored reservations are.                                   *)
(***************************************************************************)
NotOpenYet == <<"date", "not_open_yet">>

LaterReasons ==
    {<<"date", "closed">>, <<"time", "time_range">>, <<"time", "lead_time">>}
        \cup CapacityReasons \cup TierReasons

WindowNotOpen ==
    /\ response.op # "none"
    /\ BookingWindowClosed(response.cand, special_days, today)

C14_BookingWindowIsTerminal ==
    WindowNotOpen =>
        /\ Evaluated
        /\ ~response.saved
        /\ NotOpenYet \in ReasonsOf(response.errors)
        /\ ReasonsOf(response.errors) \cap LaterReasons = {}

\* rejected as not open yet on a closed weekday, for a party that does not
\* fit next to the stored one
C14_Witness ==
    /\ WindowNotOpen
    /\ NotOpenYet \in ReasonsOf(response.errors)
    /\ ClosedDayErrors(response.cand, opening_hours) # <<>>
    /\ response.cand.time = 12 * 60
    /\ response.cand.party_size = 9
    /\ response.seen # <<>>

(***************************************************************************)
(* C15: a SpecialOpeningDay supersedes the weekday rule for its date.      *)
(* When one exists for the candidate's date and its booking window is      *)
(* open, the request gets the closed-day reason exactly when the special   *)
(* day is marked closed, and, the special day being open with hours of its *)
(* own, the time reason exactly when the time is outside those hours; the  *)
(* OpeningHours row of the weekday decides neither.                        *)
(***************************************************************************)
ClosedReason == <<"date", "closed">>
TimeRangeReason == <<"time", "time_range">>

SpecialLast(sp) ==
    IF sp.last_res_time # NoneVal THEN sp.last_res_time ELSE sp.close_time

OnBookableSpecialDay ==
    /\ Evaluated
    /\ response.cand.date # NoneVal
    /\ HasSpecial(special_days, response.cand.date)
    /\ ~BookingWindowClosed(response.cand, special_days, today)

C15_SpecialDaySupersedesWeekday ==
    OnBookableSpecialDay =>
        LET c == response.cand
            sp == SpecialFor(special_days, c.date)
            reasons == ReasonsOf(response.errors)
        IN /\ ClosedReason \in reasons <=> ~sp.is_open
           /\ (/\ sp.is_open
               /\ sp.open_time # NoneVal
               /\ SpecialLast(sp) # NoneVal
               /\ c.time \in TIME_CHOICES)
              => (TimeRangeReason \in reasons
                  <=> (c.time < sp.open_time \/ c.time > SpecialLast(sp)))

(***************************************************************************)
(* C16: opening hours.  On a date without special day whose weekday row is *)
(* open, the request gets the time reason exactly when its time is before  *)
(* open_time or after the effective last reservation time (last_res_time   *)
(* when set, close_time otherwise), both bounds being allowed; on a date   *)
(* whose weekday has no row or a row with is_open false it gets the        *)
(* closed-day reason.                                                      *)
(***************************************************************************)
OnWeekdaySchedule ==
    /\ response.op # "none"
    /\ response.cand.date # NoneVal
    /\ ~HasSpecial(special_days, response.cand.date)

OutsideHours(time, opening) ==
    \/ (opening.open_time # NoneVal /\ time < opening.open_time)
    \/ (effective_last_res_time(opening) # NoneVal
        /\ time > effective_last_res_time(opening))

C16_OpeningHours ==
    OnWeekdaySchedule =>
        LET c == response.cand
            opening == opening_hours[weekday(c.date)]
        IN IF ~opening.exists \/ ~opening.is_open
           THEN Evaluated /\ ClosedReason \in ReasonsOf(response.errors)
           ELSE c.time \in TIME_CHOICES =>
                   /\ Evaluated
                   /\ TimeRangeReason \in ReasonsOf(response.errors)
                          <=> OutsideHours(c.time, opening)

(***************************************************************************)
(* C17: minimum lead time.  For a candidate whose date is today, at every  *)
(* time of day, the last MIN_LEAD_MINUTES of the day included, the request *)
(* gets the lead-time reason exactly when its time is not later than now   *)
(* plus MIN_LEAD_MINUTES; a candidate for a later date never gets it.      *)
(***************************************************************************)
LeadTimeReason == <<"time", "lead_time">>

C17_MinimumLeadTime ==
    (/\ Evaluated
     /\ response.cand.date # NoneVal
     /\ response.cand.date >= today
     /\ response.cand.time \in TIME_CHOICES) =>
        (LeadTimeReason \in ReasonsOf(response.errors)
            <=> (/\ response.cand.date = today
                 /\ response.cand.time <= now + MIN_LEAD_MINUTES))

(***************************************************************************)
(* C18: the checks do not short-circuit.  Outside the terminal cases, a    *)
(* request always gets a result in which every failed check among party    *)
(* size, contact details, past date, opening hours and lead time has its   *)
(* own reason, whatever other checks failed; and the reservation is saved  *)
(* exactly when the result holds no reason.                                *)
(***************************************************************************)
PastDateReason == <<"date", "past_date">>
EmailReason == <<"email", "email_required">>
PhoneReason == <<"phone", "phone_required">>

Requested == response.op # "none"

C18_ChecksDoNotShortCircuit ==
    (Requested /\ ~BookingWindowClosed(response.cand, special_days, today))
    => /\ Evaluated
       /\ LET c == CleanedData(response.cand)
              reasons == ReasonsOf(response.errors)
              opening == opening_hours[weekday(c.date)]
          IN /\ ReasonsOf(PartySizeErrors(c)) \subseteq reasons
             /\ ~c.email => EmailReason \in reasons
             /\ ~c.phone => PhoneReason \in reasons
             /\ (c.date # NoneVal /\ c.date < today)
                    => PastDateReason \in reasons
             /\ (c.date # NoneVal /\ (~opening.exists \/ ~opening.is_open))
                    => ClosedReason \in reasons
             /\ (/\ c.date # NoneVal
                 /\ c.time # NoneVal
                 /\ opening.exists
                 /\ opening.is_open
                 /\ OutsideHours(c.time, opening))
                    => TimeRangeReason \in reasons
             /\ ReasonsOf(LeadTimeErrors(c, today, now)) \subseteq reasons
             /\ response.saved <=> reasons = {}

(***************************************************************************)
(* C19: frame of create_reservation.  A request whose candidate is         *)
(* rejected leaves the stored reservations, their statuses and their       *)
(* tables as they were; an accepted request appends exactly one            *)
(* reservation, with the candidate's fields, status CONFIRMED, source      *)
(* ONLINE and no tables, and changes no stored reservation.                *)
(***************************************************************************)
ConfirmedOnlineRow(c) ==
    [date |-> c.date, time |-> c.time, party_size |-> c.party_size,
     seating_preference |-> c.seating_preference,
     status |-> "CONFIRMED", source |-> "ONLINE", tables |-> {}]

Accepted(resp) == resp.op = "create" /\ resp.saved

CreateFrame ==
    IF Accepted(response')
    THEN reservations' = Append(reservations,
                                ConfirmedOnlineRow(response'.cand))
    ELSE reservations' = reservations

C19_PersistOnlyOnAcceptance == [][CreateFrame]_vars

\* a request was accepted while a reservation was stored
C19_Witness ==
    /\ Accepted(response)
    /\ response.seen # <<>>
    /\ Len(reservations) = Len(response.seen) + 1

(***************************************************************************)
(* views.build_capacity_timeblocks for two reservations of the day: the    *)
(* starts of its 15-minute slots, from the earliest start floored to a     *)
(* slot up to the latest end, and whether one slot counts both.            *)
(***************************************************************************)
SlotStarts(a_time, b_time, dwell_minutes) ==
    LET earliest_start == IF a_time <= b_time THEN a_time ELSE b_time
        latest_end == (IF a_time <= b_time THEN b_time ELSE a_time)
                          + dwell_minutes
        floored_minutes == (earliest_start \div SLOT_MINUTES) * SLOT_MINUTES
    IN {current \in floored_minutes..(latest_end - 1) :
            (current - floored_minutes) % SLOT_MINUTES = 0}

TimeblockCountsBoth(a_time, b_time, dwell_minutes) ==
    \E slot_start \in SlotStarts(a_time, b_time, dwell_minutes) :
        /\ SlotOverlap(a_time, a_time + dwell_minutes,
                       slot_start, slot_start + SLOT_MINUTES)
        /\ SlotOverlap(b_time, b_time + dwell_minutes,
                       slot_start, slot_start + SLOT_MINUTES)

\* forms.py: the windows the admission check compares
AdmissionCounts(existing, candidate) ==
    CleanOverlap(dt_combine(existing.date, existing.time),
                 dt_combine(existing.date, existing.time) + DWELL_MINUTES,
                 dt_combine(candidate.date, candidate.time),
                 dt_combine(candidate.date, candidate.time) + DWELL_MINUTES)

\* views.py: the windows get_blocked_table_ids compares
BlockedCounts(other, reservation, dwell_minutes) ==
    BlockedOverlap(dt_combine(other.date, other.time),
                   dt_combine(other.date, other.time) + dwell_minutes,
                   dt_combine(reservation.date, reservation.time),
                   dt_combine(reservation.date, reservation.time)
                       + dwell_minutes)

(***************************************************************************)
(* C20: one dwell duration.  For every configured dwell_minutes and every  *)
(* two reservations of the same date, the admission check counts them as   *)
(* overlapping exactly when the blocked-table computation does and exactly *)
(* when a slot of the capacity timeline counts both.                       *)
(***************************************************************************)
C20_SameDwellEverywhere ==
    \A i, j \in DOMAIN reservations :
        (i # j /\ reservations[i].date = reservations[j].date) =>
            LET a == reservations[i]
                b == reservations[j]
                dwell_minutes == get_dwell_minutes(settings)
            IN /\ AdmissionCounts(a, b) <=> BlockedCounts(a, b, dwell_minutes)
               /\ AdmissionCounts(a, b)
                      <=> TimeblockCountsBoth(a.time, b.time, dwell_minutes)

(***************************************************************************)
(* C21: blocked tables.  For every stored reservation R the blocked set is *)
(* exactly the tables held by the reservations other than R, of R's date,  *)
(* neither cancelled nor no-show, whose window shares an instant with R's: *)
(* a table that only R holds, or that only cancelled or no-show            *)
(* reservations hold, is never in it.                                      *)
(***************************************************************************)
Blocking(o, pk, rs, dwell) ==
    /\ o # pk
    /\ rs[o].date = rs[pk].date
    /\ rs[o].status \notin {"CANCELLED", "NO_SHOW"}
    /\ SharesInstant(rs[o].time, dwell, rs[pk].time, dwell)

BlockedTables(pk, rs, dwell) ==
    {t \in TableIds : \E o \in DOMAIN rs :
        Blocking(o, pk, rs, dwell) /\ t \in rs[o].tables}

C21_BlockedTablesExact ==
    \A pk \in DOMAIN reservations :
        get_blocked_table_ids(pk, reservations, get_dwell_minutes(settings))
            = BlockedTables(pk, reservations, get_dwell_minutes(settings))

\* a table is refused to the second reservation because the first one holds
\* it, while the second keeps a table of its own that nobody else holds
C21_Witness ==
    /\ response.op = "tables"
    /\ response.result = "in_use"
    /\ Len(reservations) = 2
    /\ reservations[response.pk].tables # {}
    /\ \E t \in reservations[response.pk].tables :
           t \notin BlockedTables(response.pk, reservations,
                                  get_dwell_minutes(settings))
    /\ BlockedTables(response.pk, reservations,
                     get_dwell_minutes(settings)) # {}

(***************************************************************************)
(* C22: re-assignment is idempotent.  In every reachable state, a          *)
(* staff_update_tables request for a table T that reservation R already    *)
(* holds succeeds, T blocked or not, and leaves R with exactly {T}; the    *)
(* request is refused as already in use only when T is blocked for R and   *)
(* not held by R.                                                          *)
(***************************************************************************)
PostedTable(T) == [kind |-> "int", id |-> T]

ReassignStep(pk, T) ==
    StaffUpdateTables(pk, PostedTable(T)) =>
        /\ T \in reservations[pk].tables =>
               /\ response'.result = "assigned"
               /\ reservations'[pk].tables = {T}
        /\ response'.result = "in_use" =>
               /\ T \in BlockedTables(pk, reservations,
                                      get_dwell_minutes(settings))
               /\ T \notin reservations[pk].tables

C22_ReassignmentIsIdempotent ==
    [][\A pk \in DOMAIN reservations : \A T \in ActiveTableIds :
           ReassignStep(pk, T)]_vars

(***************************************************************************)
(* C23: frame of staff_update_tables.  An accepted assignment replaces the *)
(* table set of the reservation with the one chosen table; a refused one   *)
(* (table in use, not a number, unknown or inactive table) leaves the      *)
(* table set as it was; an empty selection always clears it.  No request   *)
(* changes the tables of another reservation or any status, and no request *)
(* leaves a reservation with more than one table unless it held them       *)
(* before: tables set only by this handler are never more than one.        *)
(***************************************************************************)
OnlyTablesChanged(before, after) ==
    after = [before EXCEPT !.tables = after.tables]

TablesStep(pk, t) ==
    StaffUpdateTables(pk, t) =>
        /\ DOMAIN reservations' = DOMAIN reservations
        /\ \A o \in DOMAIN reservations :
               /\ o # pk => reservations'[o] = reservations[o]
               /\ OnlyTablesChanged(reservations[o], reservations'[o])
               /\ Cardinality(reservations'[o].tables) > 1
                      => reservations'[o].tables = reservations[o].tables
        /\ pk \in DOMAIN reservations =>
               /\ response'.result = "assigned" =>
                      t.kind = "int" /\ reservations'[pk].tables = {t.id}
               /\ response'.result \in {"in_use", "invalid_table", "404"} =>
                      reservations'[pk].tables = reservations[pk].tables
               /\ t.kind = "empty" =>
                      /\ response'.result = "cleared"
                      /\ reservations'[pk].tables = {}

C23_TableAssignmentFrame ==
    [][\A pk \in 1..MaxTableRows : \A t \in PostedTables :
           TablesStep(pk, t)]_vars

\* a table was assigned to one reservation while the other holds two
C23_Witness ==
    /\ response.op = "tables"
    /\ response.result = "assigned"
    /\ Cardinality(reservations[response.pk].tables) = 1
    /\ \E o \in DOMAIN reservations :
           o # response.pk /\ Cardinality(reservations[o].tables) = 2

(***************************************************************************)
(* C26: pressure level.  For all occupied and capacity, the level is       *)
(* unknown when the capacity is 0, otherwise calm when                     *)
(* occupied * 100 < 50 * capacity, busy when                               *)
(* 50 * capacity <= occupied * 100 < 80 * capacity, and very_busy when     *)
(* occupied * 100 >= 80 * capacity, occupied above capacity included.      *)
(***************************************************************************)
LevelEvaluated == response.op = "level"

C26_PressureLevel ==
    LevelEvaluated =>
        LET occupied == response.guests
            capacity == response.capacity
        IN /\ response.level = "unknown" <=> capacity = 0
           /\ response.level = "calm"
                  <=> (capacity # 0 /\ occupied * 100 < 50 * capacity)
           /\ response.level = "busy"
                  <=> (/\ capacity # 0
                       /\ 50 * capacity <= occupied * 100
                       /\ occupied * 100 < 80 * capacity)
           /\ response.level = "very_busy"
                  <=> (capacity # 0 /\ occupied * 100 >= 80 * capacity)

\* exactly 80 percent, and more guests than seats
C26_Witness ==
    /\ LevelEvaluated
    /\ response.level = "very_busy"
    /\ response.capacity = 10
    /\ response.guests \in {8, 11}

(***************************************************************************)
(* C24: the 15-minute timeline.  It counts only reservations with status   *)
(* PENDING, CONFIRMED, SEATED or COMPLETED; it is empty when there are     *)
(* none; otherwise its buckets are contiguous 15-minute steps from the     *)
(* earliest start floored to a quarter hour to the first step boundary at  *)
(* or after the latest window end, and in each bucket the indoor, outdoor  *)
(* and unassigned loads are the party sizes of the counted reservations of *)
(* that area whose window shares an instant with the step, total their     *)
(* sum.                                                                    *)
(***************************************************************************)
TimelineBuilt == response.op = "timeline"

Counted(rs) ==
    SelectSeq(rs, LAMBDA r : r.status \notin {"NO_SHOW", "CANCELLED"})

StartOf(r) == dt_combine(today, r.time)

\* the guests of an area whose window shares an instant with the step
StepLoad(rs, area, step_start, dwell) ==
    PartySum(SelectSeq(Counted(rs), LAMBDA r :
        /\ classify_area(r) = area
        /\ SharesInstant(step_start, SLOT_MINUTES, StartOf(r), dwell)))

BucketsCover(blocks, rs, dwell) ==
    LET starts == {StartOf(Counted(rs)[i]) : i \in DOMAIN Counted(rs)}
        first == SetMin(starts)
        latest_end == SetMax(starts) + dwell
    IN /\ blocks # <<>>
       /\ blocks[1].start <= first
       /\ first < blocks[1].start + SLOT_MINUTES
       /\ blocks[1].start % SLOT_MINUTES = 0
       /\ \A k \in DOMAIN blocks :
              /\ blocks[k].end = blocks[k].start + SLOT_MINUTES
              /\ k > 1 => blocks[k].start = blocks[k - 1].end
       /\ blocks[Len(blocks)].end >= latest_end
       /\ blocks[Len(blocks)].start < latest_end

BucketsLoaded(blocks, rs, dwell) ==
    \A k \in DOMAIN blocks :
        /\ \A area \in {"indoor", "outdoor", "unassigned"} :
               blocks[k][area] = StepLoad(rs, area, blocks[k].start, dwell)
        /\ blocks[k].total = blocks[k].indoor + blocks[k].outdoor
                                 + blocks[k].unassigned

C24_QuarterHourTimeline ==
    TimelineBuilt =>
        LET blocks == response.quarter_blocks
            dwell == get_dwell_minutes(settings)
        IN IF Counted(reservations) = <<>>
           THEN blocks = <<>>
           ELSE /\ BucketsCover(blocks, reservations, dwell)
                /\ BucketsLoaded(blocks, reservations, dwell)

\* a no-show next to a counted reservation that starts off the quarter hour
C24_Witness ==
    /\ TimelineBuilt
    /\ Len(reservations) = 2
    /\ \E i \in DOMAIN reservations : reservations[i].status = "NO_SHOW"
    /\ \E i \in DOMAIN reservations :
           /\ reservations[i].status = "CONFIRMED"
           /\ reservations[i].time = 12 * 60 + 10
    /\ Len(response.quarter_blocks) > 1

(***************************************************************************)
(* C25: area of a reservation in the timeline.  With an assigned area the  *)
(* reservation is counted in that area, indoor or outdoor; without one, an *)
(* INDOOR preference is counted as indoor and both NO_PREF and             *)
(* OUTDOOR_IF_POSSIBLE as unassigned, never as indoor or outdoor, unlike   *)
(* the admission check, where NO_PREF is indoor.                           *)
(***************************************************************************)
\* the load a single counted reservation puts in its first slot
OnlyRowLoads ==
    [area \in {"indoor", "outdoor", "unassigned"} |->
        response.quarter_blocks[1][area]]

LoadsIn(area, size) ==
    [a \in {"indoor", "outdoor", "unassigned"} |->
        IF a = area THEN size ELSE 0]

C25_ReportingArea ==
    (TimelineBuilt /\ Len(reservations) = 1
                   /\ Counted(reservations) # <<>>) =>
        LET r == reservations[1]
            assigned == getattr_assigned_area(r)
        IN /\ assigned \in {"INDOOR", "indoor"}
                  => OnlyRowLoads = LoadsIn("indoor", r.party_size)
           /\ assigned \in {"OUTDOOR", "outdoor"}
                  => OnlyRowLoads = LoadsIn("outdoor", r.party_size)
           /\ (assigned = "" /\ r.seating_preference = PREF_INDOOR)
                  => OnlyRowLoads = LoadsIn("indoor", r.party_size)
           /\ (assigned = ""
               /\ r.seating_preference \in {PREF_NO_PREF, PREF_OUTDOOR})
                  => OnlyRowLoads = LoadsIn("unassigned", r.party_size)

\* a NO_PREF reservation without assigned area, indoor for the admission
\* check, in the unassigned load of the timeline
C25_Witness ==
    /\ TimelineBuilt
    /\ Len(reservations) = 1
    /\ reservations[1].status = "CONFIRMED"
    /\ getattr_assigned_area(reservations[1]) = ""
    /\ reservations[1].seating_preference = PREF_NO_PREF
    /\ Zone(reservations[1].seating_preference) = "indoor"
    /\ response.quarter_blocks[1].unassigned = reservations[1].party_size

(***************************************************************************)
(* C27: the hourly rollup takes the maximum.  For every hour of the hourly *)
(* sequence, each of indoor, outdoor, unassigned and total is the largest  *)
(* value of that metric among the 15-minute buckets starting in the hour,  *)
(* not their sum; so the hourly total is at most the hourly indoor plus    *)
(* outdoor plus unassigned.                                                *)
(***************************************************************************)
Metrics == {"indoor", "outdoor", "unassigned", "total"}

BucketsOfHour(blocks, hour) ==
    {k \in DOMAIN blocks : hour <= blocks[k].start
                           /\ blocks[k].start < hour + 60}

C27_HourlyMaximum ==
    TimelineBuilt =>
        \A h \in DOMAIN response.hour_blocks :
            LET entry == response.hour_blocks[h]
                blocks == response.quarter_blocks
                inside == BucketsOfHour(blocks, entry.start)
            IN /\ inside # {}
               /\ \A metric \in Metrics :
                      /\ \E k \in inside : blocks[k][metric] = entry[metric]
                      /\ \A k \in inside : blocks[k][metric] <= entry[metric]
               /\ entry.total
                      <= entry.indoor + entry.outdoor + entry.unassigned

\* an hour with a loaded bucket below the hour's peak
C27_Witness ==
    /\ TimelineBuilt
    /\ \E h \in DOMAIN response.hour_blocks :
           LET entry == response.hour_blocks[h]
               blocks == response.quarter_blocks
               inside == BucketsOfHour(blocks, entry.start)
           IN \E k \in inside : /\ blocks[k].total > 0
                                 /\ blocks[k].total < entry.total

(***************************************************************************)
(* C28: the hourly sequence.  It is in increasing hour order, holds an     *)
(* hour exactly when some 15-minute bucket starting in that hour has a     *)
(* total load above 0, and marks an hour is_past exactly when a now is     *)
(* supplied and the hour's end is at or before it.                         *)
(***************************************************************************)
C28_HourlySequence ==
    TimelineBuilt =>
        LET hours == response.hour_blocks
            blocks == response.quarter_blocks
        IN /\ \A h \in DOMAIN hours :
                  /\ hours[h].start % 60 = 0
                  /\ hours[h].end = hours[h].start + 60
                  /\ h > 1 => hours[h - 1].start < hours[h].start
                  /\ hours[h].is_past
                         <=> (/\ response.now # NoneVal
                              /\ hours[h].end <= response.now)
           /\ \A k \in DOMAIN blocks :
                  (\E h \in DOMAIN hours :
                       hours[h].start = HourOf(blocks[k].start))
                      <=> \E j \in BucketsOfHour(blocks,
                                                HourOf(blocks[k].start)) :
                              blocks[j].total > 0
           /\ \A h \in DOMAIN hours :
                  \E k \in BucketsOfHour(blocks, hours[h].start) :
                      blocks[k].total > 0

\* an hour without guests between two loaded hours is left out, one listed
\* hour is past and a later one is not
C28_Witness ==
    /\ TimelineBuilt
    /\ Len(response.hour_blocks) >= 2
    /\ \E h \in DOMAIN response.hour_blocks :
           /\ h > 1
           /\ response.hour_blocks[h].start
                  > response.hour_blocks[h - 1].start + 60
    /\ \E h \in DOMAIN response.hour_blocks : response.hour_blocks[h].is_past
    /\ \E h \in DOMAIN response.hour_blocks :
           ~response.hour_blocks[h].is_past

(***************************************************************************)
(* C29: configuration fault.  When the group boundaries of the             *)
(* configuration do not satisfy medium_min <= medium_max < large_min <=    *)
(* very_large_min, a request is answered with a configuration fault, which *)
(* is neither an acceptance nor a validation rejection: no admission       *)
(* decision is computed from such boundaries.                              *)
(***************************************************************************)
ConfigurationFault == response.op = "configuration_fault"

C29_ConfigurationFault ==
    (Requested /\ ~ValidTierConfig(settings)) =>
        ConfigurationFault /\ ~Evaluated

(***************************************************************************)
(* C30: zone capacity survives staff status changes.  From an empty table, *)
(* with the configuration unchanged, after any sequence of accepted        *)
(* create_reservation requests and staff_update_status requests handled    *)
(* one at a time, for each zone, each date and each instant, the guests of *)
(* the non-cancelled reservations of the zone whose window contains the    *)
(* instant are at most the capacity of the zone; a reservation that leaves *)
(* CANCELLED does not push its zone over the capacity.                     *)
(***************************************************************************)
OverCapacity(zone, date, t) ==
    InstantLoad(reservations, date, zone, t, settings.dwell_minutes)
        > ZoneCapacity(zone, settings)

C30_CapacitySurvivesStatusChanges ==
    ~ \E zone \in {IndoorZone, OutdoorZone} : \E date \in BookingDates :
          \E t \in TIME_CHOICES : OverCapacity(zone, date, t)

(***************************************************************************)
(* C31: the group limits hold at every instant.  From an empty table with  *)
(* the default configuration, after any sequence of create_reservation     *)
(* requests handled one at a time, at every instant the non-cancelled      *)
(* indoor reservations whose window contains the instant include at most   *)
(* one very large group and at most two large groups, and at most one      *)
(* medium group when two large groups are among them; the non-cancelled    *)
(* outdoor ones include at most two large groups.  Every booking starts on *)
(* a quarter hour and the dwell is a multiple of 15, so the groups present *)
(* are constant between the instants of TIME_CHOICES.                      *)
(***************************************************************************)
PresentAt(zone, date, t) ==
    SelectSeq(ActiveOf(reservations, date, zone),
              LAMBDA r : r.time <= t /\ t < r.time + settings.dwell_minutes)

VeryLargeAt(zone, date, t) ==
    Len(SelectSeq(PresentAt(zone, date, t),
                  LAMBDA r : IsVeryLarge(r.party_size, settings)))
LargeAt(zone, date, t) ==
    Len(SelectSeq(PresentAt(zone, date, t),
                  LAMBDA r : IsLarge(r.party_size, settings)))
MediumAt(zone, date, t) ==
    Len(SelectSeq(PresentAt(zone, date, t),
                  LAMBDA r : IsMedium(r.party_size, settings)))

C31_TierLimitsAtEveryInstant ==
    \A date \in BookingDates : \A t \in TIME_CHOICES :
        /\ VeryLargeAt(IndoorZone, date, t) <= 1
        /\ LargeAt(IndoorZone, date, t) <= 2
        /\ LargeAt(IndoorZone, date, t) >= 2
               => MediumAt(IndoorZone, date, t) <= 1
        /\ LargeAt(OutdoorZone, date, t) <= 2

\* two large groups and a medium group are present indoors at 13:00 and a
\* further booking was refused by the medium rule
C31_Witness ==
    /\ LargeAt(IndoorZone, 1, 13 * 60) = 2
    /\ MediumAt(IndoorZone, 1, 13 * 60) = 1
    /\ Evaluated /\ ~response.saved
    /\ <<"time", "medium_limit">> \in ReasonsOf(response.errors)

(***************************************************************************)
(* C32: the global closure gate.  While reservations_open is false,        *)
(* create_reservation stores a new reservation only for a date that is a   *)
(* special opening day bookable now (is_open, date >= today,               *)
(* bookings_open_from <= today); a request for any other date is refused   *)
(* with the closure message and stores nothing; and with no such special   *)
(* day no request stores anything.                                         *)
(***************************************************************************)
BookableSpecialDate(date) ==
    \E s \in special_days :
        /\ s.date = date /\ s.is_open
        /\ s.date >= today /\ s.bookings_open_from <= today

ClosureReason == <<"__all__", "closure_message">>

Stored ==
    /\ Evaluated /\ response.saved
    /\ reservations = Append(response.seen, NewReservation(response.cand))

C32_GlobalClosureGate ==
    (Requested /\ ~ReservationsOpen(settings)) =>
        /\ Stored => BookableSpecialDate(response.cand.date)
        /\ ~BookableSpecialDate(response.cand.date) =>
               /\ Evaluated /\ ~response.saved
               /\ ClosureReason \in ReasonsOf(response.errors)
               /\ reservations = response.seen
        /\ ~HasBookableSpecialDays(special_days, today) =>
               reservations = response.seen

(***************************************************************************)
(* C33: staff_update_status changes only the status of the addressed       *)
(* reservation.  A requested status among CONFIRMED, SEATED, COMPLETED,    *)
(* NO_SHOW and CANCELLED becomes the new status whatever the current one;  *)
(* any other requested value (PENDING, empty or unknown) is refused and    *)
(* leaves the status as it was; no request changes a table assignment,     *)
(* another field or another reservation, and no reservation returns to     *)
(* PENDING.                                                                *)
(***************************************************************************)
StaffTargets == {"CONFIRMED", "SEATED", "COMPLETED", "NO_SHOW", "CANCELLED"}

OnlyStatusChanged(old, new) == new = [old EXCEPT !.status = new.status]

StatusStep(pk, s) ==
    StaffUpdateStatus(pk, s) =>
        /\ DOMAIN reservations' = DOMAIN reservations
        /\ \A i \in DOMAIN reservations :
               /\ OnlyStatusChanged(reservations[i], reservations'[i])
               /\ i # pk => reservations'[i] = reservations[i]
               /\ reservations'[i].status = "PENDING"
                      => reservations[i].status = "PENDING"
        /\ pk \in DOMAIN reservations =>
               reservations'[pk].status =
                   IF s \in StaffTargets THEN s ELSE reservations[pk].status
        /\ UNCHANGED <<settings, opening_hours, special_days>>

C33_StatusChangeFrame ==
    [][\A pk \in 1..(MaxStatusRows + 1) : \A s \in PostedStatusValues :
           StatusStep(pk, s)]_vars

\* a reservation that holds a table and is now SEATED, beside one still
\* pending, after a request that was refused
C33_Witness ==
    /\ response.op = "status" /\ response.result = "invalid_status"
    /\ \E i \in DOMAIN reservations : \E j \in DOMAIN reservations :
           /\ reservations[i].status = "SEATED"
           /\ reservations[i].tables # {}
           /\ reservations[j].status = "PENDING"

(***************************************************************************)
(* C34: the two table-conflict computations agree.  For every stored       *)
(* reservation R and every store, the tables that the admin reservation    *)
(* form hides as busy are the blocked tables of R, as the staff dashboard  *)
(* computes them with the same dwell, without the tables R holds itself:   *)
(* the same overlap test, the same dwell and the same excluded statuses    *)
(* (CANCELLED and NO_SHOW).                                                *)
(***************************************************************************)
AdminFormOpened == response.op = "admin_form"

C34_TableConflictsAgree ==
    AdminFormOpened =>
        response.busy =
            BlockedTables(response.pk, reservations, ADMIN_DWELL_MINUTES)
                \ reservations[response.pk].tables

=============================================================================
